---------------------------- MODULE Spec2Model ----------------------------
(***************************************************************************)
(* Model of the hydroV4 telemetry-ingestion and actuator-control core:     *)
(*   - backend/api.py            control_actuators_batch, set_actuator_mode *)
(*   - backend/mqtt_client.py    actuator publisher and its rate limiter,   *)
(*                               discovery and telemetry handlers           *)
(*   - backend/services/persistence.py  sync_device_metrics, insert_reading *)
(*   - agents/gardener/automation_runner.py  cron conditions                *)
(* Strings the code transforms (strip, lower, replace, re.sub) are          *)
(* sequences of one-character strings, so the transformations are computed. *)
(***************************************************************************)
EXTENDS Integers, Sequences, FiniteSets, TLC

(***************************************************************************)
(* Character-level string helpers (Python str methods used by the code).   *)
(***************************************************************************)
UpperChars == <<"A","B","C","D","E","F","G","H","I","J","K","L","M",
                "N","O","P","Q","R","S","T","U","V","W","X","Y","Z">>
LowerChars == <<"a","b","c","d","e","f","g","h","i","j","k","l","m",
                "n","o","p","q","r","s","t","u","v","w","x","y","z">>
DigitChars == <<"0","1","2","3","4","5","6","7","8","9">>
Whitespace == {" ", "\t"}

Range(s) == {s[i] : i \in DOMAIN s}

\* str.lower() on one character
LowerMap == [i \in DOMAIN UpperChars |-> LowerChars[i]]
LowerChar(c) ==
    IF c \in Range(UpperChars)
    THEN LowerMap[CHOOSE i \in DOMAIN UpperChars : UpperChars[i] = c]
    ELSE c

\* str.lower()
Lower(s) == [i \in DOMAIN s |-> LowerChar(s[i])]

\* str.replace(" ", "")
RemoveSpaces(s) == SelectSeq(s, LAMBDA c : c # " ")

\* str.strip(): drops leading and trailing whitespace
RECURSIVE LStrip(_)
LStrip(s) == IF s # <<>> /\ Head(s) \in Whitespace THEN LStrip(Tail(s)) ELSE s

RECURSIVE RStrip(_)
RStrip(s) ==
    IF s # <<>> /\ s[Len(s)] \in Whitespace
    THEN RStrip(SubSeq(s, 1, Len(s) - 1))
    ELSE s

Strip(s) == RStrip(LStrip(s))

\* str.isdigit(): non-empty and all digits
IsDigit(s) == s # <<>> /\ \A i \in DOMAIN s : s[i] \in Range(DigitChars)

DigitVal(c) == (CHOOSE i \in DOMAIN DigitChars : DigitChars[i] = c) - 1

\* int(s) for a digit string
RECURSIVE ToInt(_)
ToInt(s) == IF s = <<>> THEN 0
            ELSE 10 * ToInt(SubSeq(s, 1, Len(s) - 1)) + DigitVal(s[Len(s)])

StartsWith(s, p) == Len(s) >= Len(p) /\ SubSeq(s, 1, Len(p)) = p

\* String literals of the program
On == <<"o","n">>
Off == <<"o","f","f">>
RelayPrefix == <<"r","e","l","a","y">>
SrcUser == <<"u","s","e","r">>
SrcAi == <<"a","i">>
SrcAutomation == <<"a","u","t","o","m","a","t","i","o","n">>


(***************************************************************************)
(* Bounds of the model.                                                    *)
(***************************************************************************)
\* commands per batch request
MaxBatch == 2
\* batch-control requests per behaviour
MaxRequests == 1
\* batch-control requests per behaviour of the rate-limiter specification
MaxRateRequests == 2
MaxAutomatedRequests == 2
\* last clock tick at which requests arrive
MaxTime == 2
\* clock ticks per second (resolution of the modelled clock)
TicksPerSecond == 100

(***************************************************************************)
(* Configuration (backend/config.py).                                      *)
(***************************************************************************)
actuator_publish_rate_hz == 50
mqtt_base_topic == "esp32"

Max(a, b) == IF a >= b THEN a ELSE b

\* mqtt_client.py:962  min_interval = 1.0 / max(1.0, rate), in clock ticks
MinInterval == TicksPerSecond \div Max(1, actuator_publish_rate_hz)

\* "no value" for last_sent and for the relay number of a payload
None == -1

VARIABLES
    metrics,          \* DB table metrics: <<device_key, metric_key>> -> row
    is_connected,     \* MQTTClient.is_connected
    actuator_buckets, \* MQTTClient.actuator_buckets: topic -> bucket
    flushTasks,       \* pending _delayed_flush tasks: <<topic, due>> -> count
    now,              \* the clock
    wire,             \* transport publishes seen by the broker, per topic
    window,           \* history: commands merged per topic since its last publish
    request,          \* the batch-control request being answered
    response,         \* its HTTP response
    forwarded,        \* history: what the request handed to the Publisher
    nreq              \* number of batch-control requests so far

ctlVars == <<metrics, is_connected, actuator_buckets, flushTasks, now, wire,
             window, request, response, forwarded, nreq>>

VARIABLES
    readings,            \* DB table readings: set of [metric_id, timestamp, value]
    values_cache,        \* MQTTClient.values_cache: <<device_key, metric_key>> -> value
    metric_cache,        \* MQTTClient.metric_cache: <<device_key, metric_key>> -> id
    discovery_completed, \* MQTTClient.discovery_completed
    devices,             \* DB table devices: rows device_key, last_seen, is_active
    emitted,             \* events published while the last message was processed
    last_message,        \* history: the last message processed
    last_sync,           \* history: device and definitions of the last sync
    resynced,            \* history: the last sync repeated the one before it
    nmsg,                \* number of telemetry messages processed
    ndisc,               \* number of discovery messages processed
    nrestart             \* number of process restarts

ingVars == <<readings, values_cache, metric_cache, discovery_completed,
             devices, emitted, last_message, last_sync, resynced, nmsg, ndisc, nrestart>>

VARIABLES
    wallclock,           \* datetime.now() of the automation engine, in seconds
    rule_last_executed,  \* AutomationEngine._rule_last_executed: rule id -> time
    cron_true,           \* history: cron evaluations that returned True
    ran,                 \* history: executions of a rule's actions
    slept,               \* the loop has slept since its last cycle
    ncycles,             \* number of evaluation cycles (run_once) so far
    cycle_starts         \* history: the times at which the cycles started

cronVars == <<wallclock, rule_last_executed, cron_true, ran, slept, ncycles,
              cycle_starts>>

VARIABLES
    document,            \* the rule document: the list under "rules"
    doc_mtime,           \* st_mtime of the rule document
    unread,              \* history: the document was written after its last read
    rules,               \* AutomationEngine.rules
    last_load_time,      \* AutomationEngine._last_load_time
    loaded,              \* load_rules: the list it read (data)
    engine_pc,           \* where the engine is: load, stamp, sleep, rules
    rule_index,          \* run_once: position of the loop in rules
    sensor_data,         \* run_once: the snapshot of the latest readings
    evaluated,           \* history: the rules evaluated in the current cycle
    nwrites,             \* number of writes of the document
    necycles             \* number of cycles completed

engVars == <<document, doc_mtime, unread, rules, last_load_time, loaded,
             engine_pc, rule_index, sensor_data, evaluated, nwrites, necycles>>

VARIABLES
    subscribers,         \* EventBroker._subscribers: queue id -> queued events
    npublished,          \* number of events published
    last_dropped,        \* history: queues that were full at the last publish
    last_received,       \* history: queues that took the last published event
    was_inactive         \* history: device keys that were marked inactive

VARIABLES
    message_queue,       \* MQTTClient.message_queue: (topic, payload) pairs
    popped,              \* history: the pairs the processor took, in order
    narrived,            \* number of calls of the network callback
    processing_task,     \* MQTTClient.processing_task: None or the task
    ntasks,              \* number of processor tasks created
    nstarts              \* number of calls of start_message_processor

brokerVars == <<subscribers, npublished, last_dropped, last_received>>
VARIABLES
    agent,               \* AutomationEngine.agent: "None", or how its run ends
    transport            \* MQTTClient.client.publish: "ok", or "raises"

queueVars == <<message_queue, popped, narrived, processing_task, ntasks, nstarts>>
envVars == <<agent, transport>>
svcVars == <<brokerVars, was_inactive, queueVars, envVars>>

NoRequest == [source |-> <<>>, force |-> FALSE, commands |-> <<>>, none |-> TRUE]
NoResponse == [status |-> 0]

(***************************************************************************)
(* Ordered dict (Python dict keeps insertion order; re-assigning a key     *)
(* keeps its position).                                                    *)
(***************************************************************************)
DictKeys(d) == [i \in DOMAIN d |-> d[i].k]
DictValues(d) == [i \in DOMAIN d |-> d[i].v]
DictHas(d, key) == \E i \in DOMAIN d : d[i].k = key
DictGet(d, key) == d[CHOOSE i \in DOMAIN d : d[i].k = key].v
DictPut(d, key, val) ==
    IF DictHas(d, key)
    THEN [i \in DOMAIN d |-> IF d[i].k = key THEN [k |-> key, v |-> val] ELSE d[i]]
    ELSE Append(d, [k |-> key, v |-> val])

(***************************************************************************)
(* Permission Arbiter: api.py control_actuators_batch.is_allowed           *)
(***************************************************************************)
ReasonAuto == "Actuator is in AUTO mode (use force=true for emergency override)"
ReasonManual == "Actuator is in MANUAL mode (user emergency override active)"

\* faulty variant: is_allowed with the force override left out
IsAllowedIgnoresForce(mode, source, force) ==
    IF mode = "auto"
    THEN IF source \in {SrcAi, SrcAutomation} THEN <<TRUE, "">>
         ELSE <<FALSE, ReasonAuto>>
    ELSE IF source = SrcUser THEN <<TRUE, "">>
         ELSE <<FALSE, ReasonManual>>

\* api.py:553-572  is_allowed
is_allowed(mode, source, force) ==
    IF mode = "auto"
    THEN IF source \in {SrcAi, SrcAutomation} THEN <<TRUE, "">>
         ELSE IF source = SrcUser /\ force THEN <<TRUE, "">>
         ELSE <<FALSE, ReasonAuto>>
    ELSE IF source = SrcUser THEN <<TRUE, "">>
         ELSE <<FALSE, ReasonManual>>

(***************************************************************************)
(* Actuator Command Publisher: mqtt_client.py                              *)
(* The publisher's state is threaded through the operators as a record     *)
(* [buckets, tasks, wire, window]; the actions store it in the variables.  *)
(***************************************************************************)
TopicChars == Range(UpperChars) \cup Range(LowerChars) \cup Range(DigitChars)
                  \cup {"_", "-"}

\* mqtt_client.py:906  re.sub(r"[^A-Za-z0-9_\-]", "_", device_id.strip()) or device_id
normalized_device_id(device_id) ==
    LET stripped == Strip(device_id)
        subbed == [i \in DOMAIN stripped |->
                      IF stripped[i] \in TopicChars THEN stripped[i] ELSE "_"]
    IN IF subbed # <<>> THEN subbed ELSE device_id

\* mqtt_client.py:909-910  f"{base_topic}/{normalized_device_id}/control"
\* (relay_control_topic is not a field of backend/config.py; the outbound
\* topic set is the device's control topic alone, spec section 6)
ControlTopic(device_id) ==
    <<mqtt_base_topic, normalized_device_id(device_id), "control">>

\* mqtt_client.py:919-929  the vendor payload
BuildPayload(device_id, control) ==
    LET key == control.actuator_key
        suffix == SubSeq(key, 6, Len(key))
    IN [device_id |-> device_id,
        actuator |-> key,
        state |-> control.state,
        relay |-> IF StartsWith(Lower(key), RelayPrefix) /\ IsDigit(suffix)
                  THEN ToInt(suffix) ELSE None]

BagAdd(bag, e) ==
    IF e \in DOMAIN bag THEN [bag EXCEPT ![e] = @ + 1] ELSE bag @@ (e :> 1)

BagRemove(bag, e) ==
    IF bag[e] > 1 THEN [bag EXCEPT ![e] = @ - 1]
    ELSE [x \in DOMAIN bag \ {e} |-> bag[x]]

\* faulty variant: _flush_actuator_bucket sending only the first accumulated payload
FlushActuatorBucketSendsFirstOnly(ps, topic, timestamp) ==
    LET payloads == DictValues(ps.buckets[topic].accumulator)
    IN IF payloads = <<>> THEN ps
       ELSE IF transport = "raises"
       THEN [ps EXCEPT
               !.buckets[topic] = [last_sent |-> timestamp, accumulator |-> <<>>],
               !.window[topic] = <<>>,
               !.raised = TRUE]
       ELSE [ps EXCEPT
               !.buckets[topic] = [last_sent |-> timestamp, accumulator |-> <<>>],
               !.wire[topic] = Append(@, [time |-> timestamp,
                                          device_id |-> payloads[1].device_id,
                                          payload |-> [batched |-> FALSE,
                                                       commands |-> <<payloads[1]>>],
                                          covers |-> ps.window[topic]]),
               !.window[topic] = <<>>]

\* faulty variant: _flush_actuator_bucket clearing the accumulator and
\* advancing last_sent only after the publish has succeeded
FlushActuatorBucketKeepsOnFailure(ps, topic, timestamp) ==
    LET payloads == DictValues(ps.buckets[topic].accumulator)
        payload_to_send ==
            IF Len(payloads) = 1
            THEN [batched |-> FALSE, commands |-> payloads]
            ELSE [batched |-> TRUE, commands |-> payloads]
    IN IF payloads = <<>> THEN ps
       ELSE IF transport = "raises"
       THEN [ps EXCEPT !.raised = TRUE]
       ELSE [ps EXCEPT
               !.buckets[topic] = [last_sent |-> timestamp, accumulator |-> <<>>],
               !.wire[topic] = Append(@, [time |-> timestamp,
                                          device_id |-> payloads[1].device_id,
                                          payload |-> payload_to_send,
                                          covers |-> ps.window[topic]]),
               !.window[topic] = <<>>]

\* mqtt_client.py:981-1005  _flush_actuator_bucket: the accumulator is
\* emptied and last_sent set (986-987) before client.publish is called
\* (1002); its exception is logged and raised again (1004-1005).  The
\* commands merged since the last publish are no longer waiting either way.
_flush_actuator_bucket(ps, topic, timestamp) ==
    LET payloads == DictValues(ps.buckets[topic].accumulator)
        payload_to_send ==
            IF Len(payloads) = 1
            THEN [batched |-> FALSE, commands |-> payloads]
            ELSE [batched |-> TRUE, commands |-> payloads]
    IN IF payloads = <<>> THEN ps
       ELSE IF transport = "raises"
       THEN [ps EXCEPT
               !.buckets[topic] = [last_sent |-> timestamp, accumulator |-> <<>>],
               !.window[topic] = <<>>,
               !.raised = TRUE]
       ELSE [ps EXCEPT
               !.buckets[topic] = [last_sent |-> timestamp, accumulator |-> <<>>],
               !.wire[topic] = Append(@, [time |-> timestamp,
                                          device_id |-> payloads[1].device_id,
                                          payload |-> payload_to_send,
                                          covers |-> ps.window[topic]]),
               !.window[topic] = <<>>]

\* faulty variant: _publish_rate_limited without the deferred flush task
PublishRateLimitedSchedulesNothing(ps, topic, payload, t) ==
    LET ps1 == IF topic \in DOMAIN ps.buckets THEN ps
               ELSE [ps EXCEPT
                       !.buckets = @ @@ (topic :> [last_sent |-> None,
                                                   accumulator |-> <<>>]),
                       !.wire = @ @@ (topic :> <<>>),
                       !.window = @ @@ (topic :> <<>>)]
        ps2 == [ps1 EXCEPT
                  !.buckets[topic].accumulator = DictPut(@, payload.actuator, payload),
                  !.window[topic] = Append(@, [time |-> t,
                                               actuator |-> payload.actuator,
                                               state |-> payload.state])]
        last_sent == ps2.buckets[topic].last_sent
        delta == t - last_sent
    IN IF last_sent = None \/ delta >= MinInterval
       THEN _flush_actuator_bucket(ps2, topic, t)
       ELSE ps2

\* mqtt_client.py:940-971  _publish_rate_limited (now is read at line 943)
_publish_rate_limited(ps, topic, payload, t) ==
    LET ps1 == IF topic \in DOMAIN ps.buckets THEN ps
               ELSE [ps EXCEPT
                       !.buckets = @ @@ (topic :> [last_sent |-> None,
                                                   accumulator |-> <<>>]),
                       !.wire = @ @@ (topic :> <<>>),
                       !.window = @ @@ (topic :> <<>>)]
        ps2 == [ps1 EXCEPT
                  !.buckets[topic].accumulator = DictPut(@, payload.actuator, payload),
                  !.window[topic] = Append(@, [time |-> t,
                                               actuator |-> payload.actuator,
                                               state |-> payload.state])]
        last_sent == ps2.buckets[topic].last_sent
        delta == t - last_sent
    IN IF last_sent = None \/ delta >= MinInterval
       THEN _flush_actuator_bucket(ps2, topic, t)
       ELSE [ps2 EXCEPT !.tasks = BagAdd(@, <<topic, t + (MinInterval - delta)>>)]

\* mqtt_client.py:896-938  publish_actuator_control (the caller has checked
\* is_connected, line 898)
publish_actuator_control(ps, device_id, control, t) ==
    _publish_rate_limited(ps, ControlTopic(device_id),
                          BuildPayload(device_id, control), t)

\* MQTTClient.publish_actuator_batch, called at api.py:615, is not defined in
\* mqtt_client.py; spec section 4.6: each processed command is forwarded to
\* the Publisher.
RECURSIVE publish_actuator_batch(_, _, _, _)
publish_actuator_batch(ps, device_id, controls, t) ==
    IF controls = <<>> \/ ps.raised THEN ps
    ELSE publish_actuator_batch(
             publish_actuator_control(ps, device_id, Head(controls), t),
             device_id, Tail(controls), t)


(***************************************************************************)
(* api.py control_actuators_batch                                          *)
(***************************************************************************)
\* faulty variant: an unknown source arbitrated as automation
NormalizeSourceUnknownIsAutomation(raw) ==
    LET source == Lower(raw)
    IN IF source \in {SrcUser, SrcAi, SrcAutomation} THEN source
       ELSE SrcAutomation

\* api.py:511-513
NormalizeSource(raw) ==
    LET source == Lower(raw)
    IN IF source \in {SrcUser, SrcAi, SrcAutomation} THEN source ELSE SrcUser

\* api.py:517-519
NormalizeCommand(command) ==
    [device_id |-> Strip(command.device_id),
     actuator_key |-> RemoveSpaces(Lower(command.actuator_key)),
     state |-> Lower(command.state)]

\* api.py:521-525  the two HTTP 400 checks
InvalidCommand(command) ==
    LET c == NormalizeCommand(command)
    IN c.device_id = <<>> \/ c.actuator_key = <<>> \/ c.state \notin {On, Off}

\* faulty variant: deduplication keeping the first command of a pair instead of the last
DedupeKeepsFirst(commands) ==
    LET F[i \in 0..Len(commands)] ==
            IF i = 0 THEN <<>>
            ELSE LET c == NormalizeCommand(commands[i])
                     key == <<c.device_id, c.actuator_key>>
                 IN IF DictHas(F[i - 1], key) THEN F[i - 1]
                    ELSE DictPut(F[i - 1], key, c)
    IN F[Len(commands)]

\* api.py:515-530  deduped[(device_id, normalized_key)] = ActuatorCommand(...)
Dedupe(commands) ==
    LET F[i \in 0..Len(commands)] ==
            IF i = 0 THEN <<>>
            ELSE LET c == NormalizeCommand(commands[i])
                 IN DictPut(F[i - 1], <<c.device_id, c.actuator_key>>, c)
    IN F[Len(commands)]

\* faulty variant: the registry query without the metric_type filter
ValidPairsIgnoresType(pairs) ==
    {p \in Range(pairs) : p \in DOMAIN metrics}

\* api.py:538-547  the registry query: actuators among the pairs, with mode
ValidPairs(pairs) ==
    {p \in Range(pairs) : p \in DOMAIN metrics /\ metrics[p].metric_type = "actuator"}

\* api.py:547  control_mode or 'manual'
ModeOf(pair) ==
    IF metrics[pair].control_mode = "NULL" THEN "manual" ELSE metrics[pair].control_mode

\* api.py:575-577
MissingOf(pairs, valid) ==
    LET sel == SelectSeq(pairs, LAMBDA p : p \notin valid)
    IN [i \in DOMAIN sel |-> [device_id |-> sel[i][1], actuator_key |-> sel[i][2]]]

\* api.py:578-588
BlockedOf(pairs, valid, source, force) ==
    LET sel == SelectSeq(pairs, LAMBDA p :
                   p \in valid /\ ~is_allowed(ModeOf(p), source, force)[1])
    IN [i \in DOMAIN sel |->
           [device_id |-> sel[i][1],
            actuator_key |-> sel[i][2],
            reason |-> is_allowed(ModeOf(sel[i]), source, force)[2],
            mode |-> ModeOf(sel[i]),
            source |-> source]]

\* api.py:594-601  the pairs that pass both checks, in order
AllowedPairs(pairs, valid, source, force) ==
    SelectSeq(pairs, LAMBDA p :
        p \in valid /\ is_allowed(ModeOf(p), source, force)[1])

\* api.py:603-611
ProcessedDetails(allowed, deduped) ==
    [i \in DOMAIN allowed |->
        [device_id |-> allowed[i][1],
         actuator_key |-> allowed[i][2],
         state |-> DictGet(deduped, allowed[i]).state,
         mode |-> ModeOf(allowed[i])]]

\* api.py:591, 603-605  device_commands: device_id -> list of ActuatorControl
DeviceCommands(allowed, deduped) ==
    LET F[i \in 0..Len(allowed)] ==
            IF i = 0 THEN <<>>
            ELSE LET device_id == allowed[i][1]
                     command == DictGet(deduped, allowed[i])
                     control == [actuator_key |-> command.actuator_key,
                                 state |-> command.state]
                     prev == IF DictHas(F[i - 1], device_id)
                             THEN DictGet(F[i - 1], device_id) ELSE <<>>
                 IN DictPut(F[i - 1], device_id, Append(prev, control))
    IN F[Len(allowed)]

\* api.py:614-615  for device_id, controls in device_commands.items(): publish
RECURSIVE PublishAll(_, _, _)
PublishAll(ps, device_commands, t) ==
    IF device_commands = <<>> \/ ps.raised THEN ps
    ELSE PublishAll(
             publish_actuator_batch(ps, Head(device_commands).k,
                                    Head(device_commands).v, t),
             Tail(device_commands), t)

\* api.py:508-509
EmptyResponse ==
    [status |-> 200, processed |-> 0, skipped |-> 0, missing |-> <<>>,
     blocked |-> <<>>]

PublisherState ==
    [buckets |-> actuator_buckets, tasks |-> flushTasks, wire |-> wire,
     window |-> window, raised |-> FALSE]

\* api.py:494-624  the handler: the response, what it hands to the Publisher,
\* and the Publisher's state after it
BatchResult(req) ==
    LET source == NormalizeSource(req.source)
        deduped == Dedupe(req.commands)
        pairs == DictKeys(deduped)
        valid == ValidPairs(pairs)
        allowed == AllowedPairs(pairs, valid, source, req.force)
        details == ProcessedDetails(allowed, deduped)
        device_commands == DeviceCommands(allowed, deduped)
        published == PublishAll(PublisherState, device_commands, now)
    IN IF req.commands = <<>>
       THEN [response |-> EmptyResponse, forwarded |-> <<>>, ps |-> PublisherState]
       ELSE IF \E i \in DOMAIN req.commands : InvalidCommand(req.commands[i])
       THEN [response |-> [status |-> 400], forwarded |-> <<>>, ps |-> PublisherState]
       ELSE IF device_commands # <<>> /\ ~is_connected
       \* mqtt_client.py:898-899: publish_actuator_control raises, HTTP 500
       THEN [response |-> [status |-> 500], forwarded |-> device_commands,
             ps |-> PublisherState]
       ELSE IF published.raised
       \* mqtt_client.py:1004-1005: the publish error is raised again, HTTP 500
       THEN [response |-> [status |-> 500], forwarded |-> device_commands,
             ps |-> published]
       ELSE [response |->
                [status |-> 200,
                 processed |-> Len(details),
                 skipped |-> Len(deduped) - Len(details),
                 missing |-> MissingOf(pairs, valid),
                 blocked |-> BlockedOf(pairs, valid, source, req.force),
                 details |-> details,
                 source |-> source],
             forwarded |-> device_commands,
             ps |-> published]


(***************************************************************************)
(* Metric definitions: backend/metrics.py, mqtt_client.py                  *)
(* _collect_metric_definitions, persistence.py sync_device_metrics.        *)
(* An absent optional string (Python None) is NoneStr.                     *)
(***************************************************************************)
NoneStr == <<"None">>

\* Python truthiness of an optional string
Truthy(s) == s # NoneStr /\ s # <<>>

\* str.upper() on one character
UpperChar(c) ==
    IF c \in Range(LowerChars)
    THEN UpperChars[CHOOSE i \in DOMAIN LowerChars : LowerChars[i] = c]
    ELSE c

\* metrics.py:38-39  " ".join(part.capitalize() for part in id.split("_")) or id
title_case(metric_id) ==
    LET joined == [i \in DOMAIN metric_id |->
                      IF metric_id[i] = "_" THEN " "
                      ELSE IF i = 1 \/ metric_id[i - 1] = "_"
                           THEN UpperChar(metric_id[i])
                           ELSE LowerChar(metric_id[i])]
    IN IF joined # <<>> THEN joined ELSE metric_id

\* metrics.py:47-54  build_metric_meta (label and unit; overrides hold only
\* truthy values, mqtt_client.py:298-302)
build_metric_meta(metric_id, label, unit) ==
    [label |-> IF Truthy(label) THEN label ELSE title_case(metric_id),
     unit |-> IF Truthy(unit) THEN unit ELSE NoneStr]

\* mqtt_client.py:292-312  add_definition; seen is the keys of definitions
add_definition(definitions, item, metric_type) ==
    IF ~Truthy(item.id) THEN definitions
    ELSE LET key == Strip(item.id)
             meta == build_metric_meta(key, item.label, item.unit)
         IN IF key = <<>> \/ \E i \in DOMAIN definitions :
                                definitions[i].metric_key = key
            THEN definitions
            ELSE Append(definitions, [metric_key |-> key,
                                      display_name |-> meta.label,
                                      unit |-> meta.unit,
                                      metric_type |-> metric_type])

RECURSIVE AddDefinitions(_, _, _)
AddDefinitions(definitions, payload, metric_type) ==
    IF payload = <<>> THEN definitions
    ELSE AddDefinitions(add_definition(definitions, Head(payload), metric_type),
                        Tail(payload), metric_type)

\* faulty variant: the actuators are collected before the sensors
CollectMetricDefinitionsActuatorsFirst(sensors_payload, actuators_payload) ==
    AddDefinitions(AddDefinitions(<<>>, actuators_payload, "actuator"),
                   sensors_payload, "sensor")

\* mqtt_client.py:284-341  _collect_metric_definitions for list payloads of
\* {id, label, unit} items: the sensors first, then the actuators
_collect_metric_definitions(sensors_payload, actuators_payload) ==
    AddDefinitions(AddDefinitions(<<>>, sensors_payload, "sensor"),
                   actuators_payload, "actuator")

\* persistence.py:79-97  the normalized definitions; a definition without a
\* key is skipped
NormalizedDefinitions(metric_defs) ==
    LET keyed == SelectSeq(metric_defs, LAMBDA d : Strip(d.metric_key) # <<>>)
    IN [i \in DOMAIN keyed |->
           LET key == Strip(keyed[i].metric_key)
           IN [metric_key |-> key,
               display_name |-> IF Truthy(keyed[i].display_name)
                                THEN keyed[i].display_name ELSE key,
               unit |-> IF Truthy(keyed[i].unit) THEN keyed[i].unit ELSE NoneStr,
               metric_type |-> keyed[i].metric_type]]

\* persistence.py:84-88  ValueError: metric_type missing ("") or not one of
\* 'sensor', 'actuator'
DefinitionsRejected(metric_defs) ==
    \E i \in DOMAIN metric_defs :
       /\ Strip(metric_defs[i].metric_key) # <<>>
       /\ metric_defs[i].metric_type \notin {"sensor", "actuator"}

\* faulty variant: metric creation that drops the definition's display name
NewMetricIgnoresLabel(table, item) ==
    [id |-> Cardinality(DOMAIN table) + 1,
     display_name |-> title_case(item.metric_key),
     unit |-> item.unit,
     metric_type |-> item.metric_type,
     control_mode |-> "manual"]

\* persistence.py:128-135  Metric(...); control_mode defaults to 'manual'
\* (models.py:55), id is the next primary key
NewMetric(table, item) ==
    [id |-> Cardinality(DOMAIN table) + 1,
     display_name |-> item.display_name,
     unit |-> item.unit,
     metric_type |-> item.metric_type,
     control_mode |-> "manual"]

\* persistence.py:114-126  an existing metric takes the definition's
\* display_name, unit and metric_type
UpdatedMetric(metric, item) ==
    [metric EXCEPT
       !.display_name = IF Truthy(item.display_name) THEN item.display_name ELSE @,
       !.unit = item.unit,
       !.metric_type = item.metric_type]

\* persistence.py:112-136  the loop over the normalized definitions
RECURSIVE ApplyDefinitions(_, _, _)
ApplyDefinitions(table, device_key, normalized) ==
    IF normalized = <<>> THEN table
    ELSE LET item == Head(normalized)
             pair == <<device_key, item.metric_key>>
             next == IF pair \in DOMAIN table
                     THEN [table EXCEPT ![pair] = UpdatedMetric(@, item)]
                     ELSE table @@ (pair :> NewMetric(table, item))
         IN ApplyDefinitions(next, device_key, Tail(normalized))

\* persistence.py:71-143  sync_device_metrics on the metrics table, for the
\* device's row (its key stands for Device.id)
sync_device_metrics(table, device_key, metric_defs) ==
    IF DefinitionsRejected(metric_defs)
    THEN [raised |-> TRUE, metrics |-> table]
    ELSE [raised |-> FALSE,
          metrics |-> ApplyDefinitions(table, device_key,
                                       NormalizedDefinitions(metric_defs))]

(***************************************************************************)
(* Telemetry handlers: mqtt_client.py.  The handler's state is threaded    *)
(* through the operators as a record [readings, values_cache,              *)
(* metric_cache, devices, events].                                         *)
(***************************************************************************)
\* an event handed to the Event Broadcaster (events.py publish); every event
\* has the same fields, unused ones are None / empty
Event(type, code, device_id, timestamp, metric_key, values) ==
    [type |-> type, code |-> code, device_id |-> device_id,
     timestamp |-> timestamp, metric_key |-> metric_key, values |-> values]

\* mqtt_client.py:360-371  _publish_error
_publish_error(st, code, device_id, metric_key, timestamp) ==
    [st EXCEPT !.events = Append(@, Event("error", code, device_id, timestamp,
                                          metric_key, <<>>))]

\* a row of the devices table
Device(device_key, last_seen, is_active) ==
    [device_key |-> device_key, last_seen |-> last_seen, is_active |-> is_active]

\* the keys of the stored devices
DeviceKeys(table) == {r.device_key : r \in table}

\* faulty variant: an existing device keeps its is_active flag
UpsertDeviceKeepsInactive(st, device_key, last_seen) ==
    [st EXCEPT !.devices =
                   IF device_key \in DeviceKeys(st.devices)
                   THEN {IF r.device_key = device_key
                         THEN Device(device_key, last_seen, r.is_active)
                         ELSE r : r \in st.devices}
                   ELSE st.devices \cup {Device(device_key, last_seen, TRUE)},
               !.events = Append(@, Event("device", "", device_key, last_seen,
                                          NoneStr, <<>>))]

\* persistence.py:15-68  upsert_device: the rows selected by device_key are
\* refreshed (31-34), or a row is inserted when there is none (42-51); a
\* device event is published (57-66)
upsert_device(st, device_key, last_seen) ==
    [st EXCEPT !.devices =
                   IF device_key \in DeviceKeys(st.devices)
                   THEN {IF r.device_key = device_key
                         THEN Device(device_key, last_seen, TRUE)
                         ELSE r : r \in st.devices}
                   ELSE st.devices \cup {Device(device_key, last_seen, TRUE)},
               !.events = Append(@, Event("device", "", device_key, last_seen,
                                          NoneStr, <<>>))]

\* mqtt_client.py:202-221  _touch_device (through _ensure_device_record, 48-71)
_touch_device(st, device_key, last_seen) == upsert_device(st, device_key, last_seen)

\* mqtt_client.py:269-282  _publish_device_event
_publish_device_event(st, device_key, last_seen) ==
    [st EXCEPT !.events = Append(@, Event("device", "", device_key, last_seen,
                                          NoneStr, <<>>))]

\* faulty variant: one reading event per metric of the message
ReadingEventPerMetric(device_id, timestamp, values) ==
    [i \in DOMAIN values |->
        Event("reading", "", device_id, timestamp, NoneStr, <<values[i]>>)]

\* mqtt_client.py:552-557 and 637-642  the reading event of a message
reading_events(device_id, timestamp, values) ==
    <<Event("reading", "", device_id, timestamp, NoneStr, values)>>

\* the words of the inbound topics
Esp32 == <<"e","s","p","3","2">>
WData == <<"d","a","t","a">>
WStatus == <<"s","t","a","t","u","s">>
WRelay == <<"r","e","l","a","y">>
WDiscovery == <<"d","i","s","c","o","v","e","r","y">>
WHeartbeat == <<"h","e","a","r","t","b","e","a","t">>
WActuators == <<"a","c","t","u","a","t","o","r","s">>

\* mqtt_client.py:34-35  base_topic.split('/') of mqtt_base_topic
base_topic_parts == <<Esp32>>

\* config.py:17  sensor_data_topic = "esp32/data", as topic.split('/')
sensor_data_topic == <<Esp32, WData>>

\* mqtt_client.py:199  "esp32/status"
status_topic == <<Esp32, WStatus>>

\* mqtt_client.py:343-358  _device_id_from_topic; topic is topic.split('/')
_device_id_from_topic(topic) ==
    LET base_len == Len(base_topic_parts)
    IN IF base_len = 0 THEN NoneStr
       ELSE IF Len(topic) < base_len THEN NoneStr
       ELSE IF SubSeq(topic, 1, base_len) # base_topic_parts THEN NoneStr
       ELSE IF Len(topic) <= base_len THEN NoneStr
       ELSE IF topic[base_len + 1] \in {WData, WStatus, WRelay, WDiscovery}
       THEN NoneStr
       ELSE topic[base_len + 1]

\* data.get('device_id') if isinstance(data, dict) else None
DerivedId(data) == IF data.is_dict THEN data.device_id ELSE NoneStr

\* derived_id or self._device_id_from_topic(topic)
DeviceIdOf(topic, data) ==
    IF Truthy(DerivedId(data)) THEN DerivedId(data) ELSE _device_id_from_topic(topic)

\* mqtt_client.py:92-118  _ensure_metric_id: the cached id, else the stored
\* metric's id, else a sync of a definition without metric_type
\* (_sync_metric_definitions, 80-90): the device row is upserted, then
\* sync_device_metrics raises ValueError (persistence.py:85-86) unless the key
\* is blank
_ensure_metric_id(st, table, device_key, metric_key, timestamp) ==
    LET pair == <<device_key, metric_key>>
    IN IF pair \in DOMAIN st.metric_cache
       THEN [raised |-> FALSE, id |-> st.metric_cache[pair], st |-> st]
       ELSE IF pair \in DOMAIN table
       THEN [raised |-> FALSE, id |-> table[pair].id,
             st |-> [st EXCEPT !.metric_cache = @ @@ (pair :> table[pair].id)]]
       ELSE LET definitions == <<[metric_key |-> metric_key,
                                  display_name |-> metric_key,
                                  unit |-> NoneStr,
                                  metric_type |-> ""]>>
            IN [raised |-> sync_device_metrics(table, device_key, definitions).raised,
                id |-> None,
                st |-> upsert_device(st, device_key, timestamp)]

\* persistence.py:146-161  insert_reading
insert_reading(table, metric_id, value, timestamp) ==
    table \cup {[metric_id |-> metric_id, timestamp |-> timestamp, value |-> value]}

\* faulty variant: a cache update with setdefault semantics
UpdateCacheValueKeepsExisting(cache, device_key, metric_key, value) ==
    [p \in DOMAIN cache \cup {<<device_key, metric_key>>} |->
        IF p \in DOMAIN cache THEN cache[p] ELSE value]

\* mqtt_client.py:159-162  _update_cache_value
_update_cache_value(cache, device_key, metric_key, value) ==
    [p \in DOMAIN cache \cup {<<device_key, metric_key>>} |->
        IF p = <<device_key, metric_key>> THEN value ELSE cache[p]]

\* faulty variant: a failed insert_reading ends the loop
RECURSIVE StoreValuesStopsAtFailure(_, _, _, _, _, _, _, _)
StoreValuesStopsAtFailure(st, table, device_id, values, i, failed, timestamp, code) ==
    IF i > Len(values) THEN [raised |-> FALSE, st |-> st]
    ELSE LET found == _ensure_metric_id(st, table, device_id, values[i].name,
                                        timestamp)
         IN IF found.raised THEN [raised |-> TRUE, st |-> found.st]
            ELSE IF found.id = None
            THEN StoreValuesStopsAtFailure(found.st, table, device_id, values,
                                           i + 1, failed, timestamp, code)
            ELSE IF i \in failed
            THEN [raised |-> FALSE,
                  st |-> _publish_error(found.st, code, device_id,
                                        values[i].name, timestamp)]
            ELSE StoreValuesStopsAtFailure(
                     [found.st EXCEPT
                        !.readings = insert_reading(@, found.id, values[i].value,
                                                    timestamp),
                        !.values_cache = _update_cache_value(
                                             @, device_id, values[i].name,
                                             values[i].value)],
                     table, device_id, values, i + 1, failed, timestamp, code)

\* mqtt_client.py:525-550 and 597-635  the loop over a message's values:
\* values[i] = [name, value]; failed holds the positions whose insert_reading
\* raises (caught at 544 / 629, an error event with the handler's code is
\* published); a ValueError of _ensure_metric_id leaves the loop and the
\* handler (lines 562, 647)
RECURSIVE StoreValues(_, _, _, _, _, _, _, _)
StoreValues(st, table, device_id, values, i, failed, timestamp, code) ==
    IF i > Len(values) THEN [raised |-> FALSE, st |-> st]
    ELSE LET found == _ensure_metric_id(st, table, device_id, values[i].name,
                                        timestamp)
         IN IF found.raised THEN [raised |-> TRUE, st |-> found.st]
            ELSE IF found.id = None
            THEN StoreValues(found.st, table, device_id, values, i + 1, failed,
                             timestamp, code)
            ELSE IF i \in failed
            THEN StoreValues(_publish_error(found.st, code, device_id,
                                            values[i].name, timestamp),
                             table, device_id, values, i + 1, failed, timestamp,
                             code)
            ELSE StoreValues(
                     [found.st EXCEPT
                        !.readings = insert_reading(@, found.id, values[i].value,
                                                    timestamp),
                        !.values_cache = _update_cache_value(
                                             @, device_id, values[i].name,
                                             values[i].value)],
                     table, device_id, values, i + 1, failed, timestamp, code)

\* the end of a telemetry handler: after a loop that did not raise, the
\* reading event (552-557, 637-642) and the device event (559, 644)
FinishTelemetry(stored, device_id, timestamp, values) ==
    IF stored.raised THEN stored.st
    ELSE _publish_device_event(
             [stored.st EXCEPT
                !.events = @ \o reading_events(device_id, timestamp, values)],
             device_id, timestamp)

\* mqtt_client.py:490-563  _handle_sensor_data; data.values is the flattened
\* payload (_flatten_sensor_payload, 171-191)
_handle_sensor_data(st, table, completed, topic, data, failed, timestamp) ==
    LET device_id == DeviceIdOf(topic, data)
        sensors == IF data.is_dict THEN data.values ELSE <<>>
    IN IF ~Truthy(device_id)
       THEN _publish_error(st, "missing_device_id", DerivedId(data), NoneStr,
                           timestamp)
       ELSE IF device_id \notin completed THEN st
       ELSE IF sensors = <<>>
       THEN _publish_error(st, "empty_sensor_payload", device_id, NoneStr,
                           timestamp)
       ELSE FinishTelemetry(
                StoreValues(_touch_device(st, device_id, timestamp), table,
                            device_id, sensors, 1, failed, timestamp,
                            "sensor_persist_failed"),
                device_id, timestamp, sensors)

\* mqtt_client.py:565-648  _handle_relay_status: only keys starting with
\* 'relay' are kept (line 586)
_handle_relay_status(st, table, topic, data, failed, timestamp) ==
    LET device_id == DeviceIdOf(topic, data)
        items == IF data.is_dict THEN data.values ELSE <<>>
        relay_values == SelectSeq(items, LAMBDA v : StartsWith(v.name, RelayPrefix))
    IN IF ~Truthy(device_id)
       THEN _publish_error(st, "missing_device_id", DerivedId(data), NoneStr,
                           timestamp)
       ELSE IF relay_values = <<>> THEN st
       ELSE FinishTelemetry(
                StoreValues(_touch_device(st, device_id, timestamp), table,
                            device_id, relay_values, 1, failed, timestamp,
                            "relay_persist_failed"),
                device_id, timestamp, relay_values)

\* mqtt_client.py:741-764  _handle_device_status_msg
_handle_device_status_msg(st, topic, data, timestamp) ==
    LET device_id == DeviceIdOf(topic, data)
    IN IF ~Truthy(device_id)
       THEN _publish_error(st, "missing_device_id", DerivedId(data), NoneStr,
                           timestamp)
       ELSE _publish_device_event(_touch_device(st, device_id, timestamp),
                                  device_id, timestamp)

\* the readings of a metric, and those with its greatest timestamp
ReadingsOf(table, metric_id) == {r \in table : r.metric_id = metric_id}

LatestOf(table, metric_id) ==
    {r \in ReadingsOf(table, metric_id) :
        \A q \in ReadingsOf(table, metric_id) : q.timestamp <= r.timestamp}

\* mqtt_client.py:120-157  populate_cache_from_db: the caches it can build,
\* one value of a latest reading for every metric that has readings (the
\* order of rows with equal timestamps is the database's)
populate_cache_from_db(table, rows) ==
    LET stored == {p \in DOMAIN table : ReadingsOf(rows, table[p].id) # {}}
    IN {f \in [stored -> {r.value : r \in rows}] :
           \A p \in stored : \E r \in LatestOf(rows, table[p].id) : r.value = f[p]}

(***************************************************************************)
(* Inputs.                                                                 *)
(***************************************************************************)
DevG == <<"g">>
KeyRelay1 == <<"r","e","l","a","y","1">>
KeyRelay2 == <<"r","e","l","a","y","2">>
KeyPh == <<"p","h">>

RawCommand(d, k, s) == [device_id |-> d, actuator_key |-> k, state |-> s]

\* commands as clients send them: mixed case, padding, an unknown device, a
\* sensor key, an invalid state, an empty device id
RawCommands ==
    { RawCommand(DevG, <<"R","e","l","a","y"," ","1">>, <<"O","N">>),
      RawCommand(<<" ","g"," ">>, KeyRelay1, Off),
      RawCommand(DevG, KeyRelay2, On),
      RawCommand(DevG, KeyPh, On),
      RawCommand(<<"h",".">>, KeyRelay1, On),
      RawCommand(DevG, KeyRelay1, <<"x">>),
      RawCommand(<<" ">>, KeyRelay1, On) }

RawSources == { SrcUser, <<"A","I">>, SrcAutomation, <<"c","r","o","n">> }

SeqsUpTo(S, n) == UNION { [1..k -> S] : k \in 0..n }

Requests ==
    [source : RawSources, force : BOOLEAN, commands : SeqsUpTo(RawCommands, MaxBatch)]

\* well-formed user commands for the registered actuators of device g
PlainCommands ==
    { RawCommand(DevG, KeyRelay1, On),
      RawCommand(DevG, KeyRelay1, Off),
      RawCommand(DevG, KeyRelay2, On) }

PlainRequests ==
    [source : {SrcUser}, force : {FALSE},
     commands : SeqsUpTo(PlainCommands, MaxBatch) \ {<<>>}]

\* well-formed commands of the agent and of the rule engine
AutomatedRequests ==
    [source : {SrcAi, SrcAutomation}, force : {FALSE},
     commands : SeqsUpTo(PlainCommands, MaxBatch) \ {<<>>}]

EmptyFn == [x \in {} |-> 0]

\* a discovery item {id, label, unit}
Item(id, label, unit) == [id |-> id, label |-> label, unit |-> unit]

\* the registry after the discovery of device g with sensor ph and actuators
\* relay1 and relay2
DiscoveredRegistry ==
    sync_device_metrics(
        EmptyFn, DevG,
        _collect_metric_definitions(
            <<Item(KeyPh, NoneStr, NoneStr)>>,
            <<Item(KeyRelay1, NoneStr, NoneStr),
              Item(KeyRelay2, NoneStr, NoneStr)>>)).metrics


(***************************************************************************)
(* Actions of the control plane.                                           *)
(***************************************************************************)
InitCtl ==
    /\ metrics = DiscoveredRegistry
    /\ is_connected = TRUE
    /\ actuator_buckets = EmptyFn
    /\ flushTasks = EmptyFn
    /\ now = 0
    /\ wire = EmptyFn
    /\ window = EmptyFn
    /\ request = NoRequest
    /\ response = NoResponse
    /\ forwarded = <<>>
    /\ nreq = 0

Idle == response = NoResponse

\* POST /api/actuators/batch-control
HandleBatch(req) ==
    \E r \in {BatchResult(req)} :
       /\ request' = req
       /\ response' = r.response
       /\ forwarded' = r.forwarded
       /\ actuator_buckets' = r.ps.buckets
       /\ flushTasks' = r.ps.tasks
       /\ wire' = r.ps.wire
       /\ window' = r.ps.window
       /\ nreq' = nreq + 1
       /\ UNCHANGED <<metrics, is_connected, now>>
       /\ UNCHANGED <<ingVars, cronVars, engVars, svcVars>>

ControlActuatorsBatch ==
    /\ Idle
    /\ nreq < MaxRequests
    /\ \E req \in Requests : HandleBatch(req)

\* the same endpoint, called with well-formed user commands only; the response
\* is delivered in the same step
ControlPlain ==
    /\ Idle
    /\ nreq < MaxRateRequests
    /\ now <= MaxTime
    /\ \E req \in PlainRequests :
          \E r \in {BatchResult(req)} :
             /\ r.response.status = 200
             /\ actuator_buckets' = r.ps.buckets
             /\ flushTasks' = r.ps.tasks
             /\ wire' = r.ps.wire
             /\ window' = r.ps.window
             /\ nreq' = nreq + 1
    /\ UNCHANGED <<metrics, is_connected, now, request, response, forwarded>>
    /\ UNCHANGED <<ingVars, cronVars, engVars, svcVars>>

\* the same endpoint, called with well-formed user commands whatever the
\* transport does; the response, HTTP 200 or 500, is delivered in the same step
ControlAnswered ==
    /\ Idle
    /\ nreq < MaxRateRequests
    /\ now <= MaxTime
    /\ \E req \in PlainRequests :
          \E r \in {BatchResult(req)} :
             /\ actuator_buckets' = r.ps.buckets
             /\ flushTasks' = r.ps.tasks
             /\ wire' = r.ps.wire
             /\ window' = r.ps.window
             /\ nreq' = nreq + 1
    /\ UNCHANGED <<metrics, is_connected, now, request, response, forwarded>>
    /\ UNCHANGED <<ingVars, cronVars, engVars, svcVars>>

\* mqtt_client.py:1002  client.publish starts or stops raising
TransportChange ==
    /\ Idle
    /\ transport' = IF transport = "ok" THEN "raises" ELSE "ok"
    /\ UNCHANGED <<ctlVars, ingVars, cronVars, engVars, brokerVars, was_inactive,
                   queueVars, agent>>

\* the same endpoint, called by the agent or the rule engine; the response is
\* delivered in the same step
ControlAutomated ==
    /\ Idle
    /\ nreq < MaxAutomatedRequests
    /\ now <= MaxTime
    /\ \E req \in AutomatedRequests :
          \E r \in {BatchResult(req)} :
             /\ actuator_buckets' = r.ps.buckets
             /\ flushTasks' = r.ps.tasks
             /\ wire' = r.ps.wire
             /\ window' = r.ps.window
             /\ nreq' = nreq + 1
    /\ UNCHANGED <<metrics, is_connected, now, request, response, forwarded>>
    /\ UNCHANGED <<ingVars, cronVars, engVars, svcVars>>

\* the HTTP response is delivered to the caller
Return ==
    /\ ~Idle
    /\ request' = NoRequest
    /\ response' = NoResponse
    /\ forwarded' = <<>>
    /\ UNCHANGED <<metrics, is_connected, actuator_buckets, flushTasks, now, wire,
                   window, nreq>>
    /\ UNCHANGED <<ingVars, cronVars, engVars, svcVars>>

\* mqtt_client.py:973-979  _delayed_flush, once its sleep is over
DelayedFlush ==
    /\ Idle
    /\ \E task \in DOMAIN flushTasks :
          /\ task[2] <= now
          /\ LET ps == [PublisherState EXCEPT !.tasks = BagRemove(@, task)]
                 after == _flush_actuator_bucket(ps, task[1], now)
             IN /\ actuator_buckets' = after.buckets
                /\ flushTasks' = after.tasks
                /\ wire' = after.wire
                /\ window' = after.window
    /\ UNCHANGED <<metrics, is_connected, now, request, response, forwarded, nreq>>
    /\ UNCHANGED <<ingVars, cronVars, engVars, svcVars>>

\* the clock advances; past MaxTime only up to the last pending task's due time
Tick ==
    /\ Idle
    /\ now < MaxTime \/ \E task \in DOMAIN flushTasks : task[2] > now
    /\ now' = now + 1
    /\ UNCHANGED <<metrics, is_connected, actuator_buckets, flushTasks, wire,
                   window, request, response, forwarded, nreq>>
    /\ UNCHANGED <<ingVars, cronVars, engVars, svcVars>>

\* api.py:687-709  POST /api/actuators/{device_key}/{actuator_key}/mode
SetActuatorMode ==
    /\ Idle
    /\ \E device_key \in {DevG}, raw_key \in {KeyRelay1, KeyRelay2, KeyPh},
          mode \in {"manual", "auto"} :
          LET pair == <<device_key, RemoveSpaces(Lower(raw_key))>>
          IN /\ pair \in DOMAIN metrics
             /\ metrics[pair].metric_type = "actuator"
             /\ metrics[pair].control_mode # mode
             /\ metrics' = [metrics EXCEPT ![pair].control_mode = mode]
    /\ UNCHANGED <<is_connected, actuator_buckets, flushTasks, now, wire, window,
                   request, response, forwarded, nreq>>
    /\ UNCHANGED <<ingVars, cronVars, engVars, svcVars>>

\* mqtt_client.py:397-400  _on_connect with rc = 0
OnConnect ==
    /\ Idle
    /\ ~is_connected
    /\ is_connected' = TRUE
    /\ UNCHANGED <<metrics, actuator_buckets, flushTasks, now, wire, window,
                   request, response, forwarded, nreq>>
    /\ UNCHANGED <<ingVars, cronVars, engVars, svcVars>>

\* mqtt_client.py:424-426  _on_disconnect
OnDisconnect ==
    /\ Idle
    /\ is_connected
    /\ is_connected' = FALSE
    /\ UNCHANGED <<metrics, actuator_buckets, flushTasks, now, wire, window,
                   request, response, forwarded, nreq>>
    /\ UNCHANGED <<ingVars, cronVars, engVars, svcVars>>

(***************************************************************************)
(* Discovery and telemetry ingestion (the message processor handles one    *)
(* message at a time, mqtt_client.py:448-462).                             *)
(***************************************************************************)
\* discovery and telemetry messages per behaviour
MaxMessages == 3
\* process restarts per behaviour
MaxRestarts == 1
\* last value of the clock of the ingestion specification
MaxClock == 1

DevH == <<"h">>
KeyXx == <<"x","x">>

\* discovery payloads as devices send them: items with a bare id, a label, a
\* padded id with a unit, an empty unit; an id repeated within a list and
\* across the lists; an id listed as a sensor in one payload and as an
\* actuator in another; no items at all.  The payload carries no device_id.
Discovery(sensors, actuators) ==
    [is_json |-> TRUE, is_dict |-> TRUE, device_id |-> NoneStr,
     sensors |-> sensors, actuators |-> actuators]

DiscoveryPayloads ==
    { Discovery(<<Item(KeyPh, NoneStr, NoneStr)>>,
                <<Item(KeyRelay1, <<"P">>, NoneStr)>>),
      Discovery(<<Item(KeyPh, NoneStr, NoneStr), Item(<<" ","p","h">>, NoneStr, <<"u">>)>>,
                <<Item(KeyRelay1, <<"P">>, NoneStr)>>),
      Discovery(<<Item(<<" ","p","h">>, NoneStr, <<"u">>)>>, <<>>),
      Discovery(<<Item(KeyRelay1, NoneStr, <<>>)>>,
                <<Item(KeyPh, NoneStr, NoneStr)>>),
      Discovery(<<Item(KeyPh, NoneStr, NoneStr)>>,
                <<Item(KeyPh, <<"P">>, NoneStr), Item(KeyRelay1, NoneStr, NoneStr)>>),
      Discovery(<<>>, <<>>) }

\* JSON scalars as the text of their value
V58 == <<"5",".","8">>
V65 == <<"6",".","5">>

Value(name, value) == [name |-> name, value |-> value]
Telemetry(device_id, values) ==
    [is_json |-> TRUE, is_dict |-> TRUE, device_id |-> device_id,
     values |-> values]

\* a payload that is valid JSON but not an object (a number, a list, or the
\* plain text kept for esp32/status)
NonDict ==
    [is_json |-> TRUE, is_dict |-> FALSE, device_id |-> NoneStr, values |-> <<>>]

\* a payload json.loads rejects (JSONDecodeError)
Undecodable ==
    [is_json |-> FALSE, is_dict |-> FALSE, device_id |-> NoneStr, values |-> <<>>]

\* sensor-data payloads: a known sensor, an unknown one before or after it,
\* an undiscovered device
SensorMessages ==
    { Telemetry(DevG, <<Value(KeyPh, V58)>>),
      Telemetry(DevG, <<Value(KeyPh, V65)>>),
      Telemetry(DevG, <<Value(KeyXx, V58), Value(KeyPh, V58)>>),
      Telemetry(DevG, <<Value(KeyPh, V65), Value(KeyXx, V58)>>),
      Telemetry(DevH, <<Value(KeyPh, V58)>>) }

\* relay-status payloads: a known relay, an unknown one after it, a key that
\* is not a relay, an unknown device
RelayMessages ==
    { Telemetry(DevG, <<Value(KeyRelay1, On)>>),
      Telemetry(DevG, <<Value(KeyRelay1, Off), Value(KeyRelay2, On)>>),
      Telemetry(DevG, <<Value(KeyPh, V65), Value(KeyRelay1, Off)>>),
      Telemetry(DevH, <<Value(KeyRelay1, On)>>) }

\* a decoded message: the topic's levels and the payload
Delivery(topic, data) == [topic |-> topic, data |-> data]

\* the messages of the ingestion specification: the payloads above on the
\* flat sensor topic and on the per-device relay and discovery topics; and
\* payloads without a device_id on a flat topic, on a per-device topic and on
\* a topic whose device level is empty ("esp32//data") or a reserved word
\* ("esp32/status/status"); a payload that is not JSON; a topic without a
\* message type ("esp32/g"); a relay-status payload without a relay key
Deliveries ==
    {Delivery(sensor_data_topic, m) : m \in SensorMessages}
    \cup {Delivery(<<Esp32, m.device_id, WRelay, WStatus>>, m) : m \in RelayMessages}
    \cup {Delivery(<<Esp32, DevG, WDiscovery>>, m) : m \in DiscoveryPayloads}
    \cup { Delivery(sensor_data_topic, Telemetry(NoneStr, <<Value(KeyPh, V58)>>)),
           Delivery(sensor_data_topic, NonDict),
           Delivery(sensor_data_topic, Undecodable),
           Delivery(<<Esp32, DevG>>, Telemetry(DevG, <<Value(KeyPh, V58)>>)),
           Delivery(<<Esp32, DevG, WRelay, WStatus>>,
                    Telemetry(DevG, <<Value(KeyPh, V65)>>)),
           Delivery(<<Esp32, DevG, WData>>,
                    Telemetry(NoneStr, <<Value(KeyPh, V65), Value(KeyRelay1, On)>>)),
           Delivery(<<Esp32, <<>>, WData>>, Telemetry(NoneStr, <<Value(KeyPh, V58)>>)),
           Delivery(<<Esp32, <<>>, WData>>, NonDict),
           Delivery(<<Esp32, <<>>, WActuators>>,
                    Telemetry(NoneStr, <<Value(KeyRelay1, On)>>)),
           Delivery(<<Esp32, <<>>, WDiscovery>>,
                    Discovery(<<Item(KeyPh, NoneStr, NoneStr)>>, <<>>)),
           Delivery(status_topic, NonDict),
           Delivery(status_topic, Telemetry(DevH, <<>>)),
           Delivery(<<Esp32, DevG, WStatus>>, Telemetry(NoneStr, <<>>)),
           Delivery(<<Esp32, <<>>, WStatus>>, Telemetry(NoneStr, <<>>)),
           Delivery(<<Esp32, WStatus, WStatus>>, Telemetry(NoneStr, <<>>)) }

NoSync == [device_key |-> <<>>, definitions |-> <<>>]
NoMessage == [topic |-> <<>>, data |-> NonDict, failed |-> {}, handler |-> "none"]

InitIng ==
    /\ readings = {}
    /\ values_cache = EmptyFn
    /\ metric_cache = EmptyFn
    /\ discovery_completed = {}
    /\ devices = {Device(p[1], -1, TRUE) : p \in DOMAIN metrics}
    /\ emitted = <<>>
    /\ last_message = NoMessage
    /\ last_sync = NoSync
    /\ resynced = FALSE
    /\ nmsg = 0
    /\ ndisc = 0
    /\ nrestart = 0

ctlRest == <<is_connected, actuator_buckets, flushTasks, wire, window, request,
             response, forwarded, nreq>>

\* the handler's view of the state when a message arrives
IngestState ==
    [readings |-> readings, values_cache |-> values_cache,
     metric_cache |-> metric_cache, devices |-> devices, events |-> <<>>]

\* mqtt_client.py:73-78  _cache_metrics with the device's metrics
_cache_metrics(cache, table, device_key) ==
    LET mine == {p \in DOMAIN table : p[1] = device_key}
    IN [p \in DOMAIN cache \cup mine |->
           IF p \in mine THEN table[p].id ELSE cache[p]]

\* mqtt_client.py:766-804  _handle_dynamic_topic: the handler a per-device
\* topic leads to, and the payload it is given (device_id filled in from the
\* topic's device level when the payload has none)
_handle_dynamic_topic(topic, data) ==
    LET base_len == Len(base_topic_parts)
    IN IF \/ base_len = 0
          \/ Len(topic) <= base_len + 1
          \/ SubSeq(topic, 1, base_len) # base_topic_parts
       THEN [handler |-> "none", data |-> data]
       ELSE LET device_id == topic[base_len + 1]
                message_type == topic[base_len + 2]
                canonical_id == IF Truthy(data.device_id) THEN data.device_id
                                ELSE device_id
                payload == [data EXCEPT !.device_id = canonical_id]
            IN IF message_type = WData
               THEN [handler |-> "sensor_data", data |-> payload]
               ELSE IF message_type = WStatus
               THEN [handler |-> "status", data |-> payload]
               ELSE IF message_type = WDiscovery
               THEN [handler |-> "discovery", data |-> payload]
               ELSE IF message_type = WHeartbeat
               THEN [handler |-> IF Truthy(canonical_id) THEN "heartbeat"
                                 ELSE "none",
                     data |-> payload]
               ELSE IF /\ message_type = WRelay
                       /\ Len(topic) >= base_len + 3
                       /\ topic[base_len + 3] = WStatus
               THEN [handler |-> "relay_status", data |-> payload]
               ELSE IF message_type = WActuators
               THEN [handler |-> "relay_status", data |-> payload]
               ELSE [handler |-> IF Truthy(canonical_id) THEN "touch" ELSE "none",
                     data |-> payload]

\* mqtt_client.py:464-487  _process_message: a payload that does not decode
\* is kept as text on esp32/status and returned from otherwise (470-476);
\* then the handler of an exact topic (_setup_handlers, 193-200), else the
\* dynamic topics for a JSON object, else nothing
_process_message(topic, data) ==
    IF ~data.is_json /\ topic # status_topic
    THEN [handler |-> "none", data |-> data]
    ELSE IF topic = sensor_data_topic THEN [handler |-> "sensor_data", data |-> data]
    ELSE IF topic = status_topic THEN [handler |-> "status", data |-> data]
    ELSE IF data.is_dict THEN _handle_dynamic_topic(topic, data)
    ELSE [handler |-> "none", data |-> data]

\* the message being processed, as recorded with the step
Processed(d, failed) ==
    [topic |-> d.topic, data |-> d.data, failed |-> failed,
     handler |-> _process_message(d.topic, d.data).handler]

\* mqtt_client.py:817-863  _handle_discovery
HandleDiscovery ==
    /\ nmsg + ndisc < MaxMessages
    /\ \E d \in Deliveries :
          LET routed == _process_message(d.topic, d.data)
              device_id == DeviceIdOf(d.topic, routed.data)
              definitions == _collect_metric_definitions(routed.data.sensors,
                                                         routed.data.actuators)
              synced == sync_device_metrics(metrics, device_id, definitions)
              this == [device_key |-> device_id, definitions |-> definitions]
              touched == _touch_device(IngestState, device_id, now)
              ensured == upsert_device(touched, device_id, now)
          IN /\ routed.handler = "discovery"
             /\ last_message' = Processed(d, {})
             /\ IF ~Truthy(device_id)
                THEN /\ emitted' = _publish_error(IngestState, "missing_device_id",
                                                  device_id, NoneStr, now).events
                     /\ UNCHANGED <<metrics, metric_cache, last_sync, resynced,
                                    discovery_completed, devices>>
                ELSE IF definitions = <<>>
                THEN /\ discovery_completed' = discovery_completed \cup {device_id}
                     /\ devices' = touched.devices
                     /\ emitted' = _publish_device_event(touched, device_id,
                                                         now).events
                     /\ UNCHANGED <<metrics, metric_cache, last_sync, resynced>>
                ELSE IF synced.raised
                THEN /\ devices' = ensured.devices
                     /\ emitted' = ensured.events
                     /\ UNCHANGED <<metrics, metric_cache, last_sync, resynced,
                                    discovery_completed>>
                ELSE /\ metrics' = synced.metrics
                     /\ metric_cache' = _cache_metrics(metric_cache, synced.metrics,
                                                       device_id)
                     /\ last_sync' = this
                     /\ resynced' = (last_sync = this)
                     /\ discovery_completed' = discovery_completed \cup {device_id}
                     /\ devices' = ensured.devices
                     /\ emitted' = _publish_device_event(ensured, device_id,
                                                         now).events
    /\ ndisc' = ndisc + 1
    /\ UNCHANGED <<readings, values_cache, nmsg, nrestart, now, ctlRest, cronVars, engVars, svcVars>>

\* the handler's result is stored
StoreIngest(st) ==
    /\ readings' = st.readings
    /\ values_cache' = st.values_cache
    /\ metric_cache' = st.metric_cache
    /\ devices' = st.devices
    /\ emitted' = st.events

\* mqtt_client.py:490-563  a sensor-data message is processed
HandleSensorData ==
    /\ nmsg + ndisc < MaxMessages
    /\ \E d \in Deliveries :
          LET routed == _process_message(d.topic, d.data)
          IN /\ routed.handler = "sensor_data"
             /\ \E failed \in SUBSET DOMAIN routed.data.values :
                   /\ StoreIngest(_handle_sensor_data(IngestState, metrics,
                                                      discovery_completed, d.topic,
                                                      routed.data, failed, now))
                   /\ last_message' = Processed(d, failed)
    /\ nmsg' = nmsg + 1
    /\ UNCHANGED <<metrics, discovery_completed, last_sync, resynced, ndisc,
                   nrestart, now, ctlRest, cronVars, engVars, svcVars>>

\* mqtt_client.py:565-648  a relay-status message is processed
HandleRelayStatus ==
    /\ nmsg + ndisc < MaxMessages
    /\ \E d \in Deliveries :
          LET routed == _process_message(d.topic, d.data)
          IN /\ routed.handler = "relay_status"
             /\ \E failed \in SUBSET DOMAIN routed.data.values :
                   /\ StoreIngest(_handle_relay_status(IngestState, metrics,
                                                       d.topic, routed.data,
                                                       failed, now))
                   /\ last_message' = Processed(d, failed)
    /\ nmsg' = nmsg + 1
    /\ UNCHANGED <<metrics, discovery_completed, last_sync, resynced, ndisc,
                   nrestart, now, ctlRest, cronVars, engVars, svcVars>>

\* mqtt_client.py:741-764  a status message is processed
HandleStatus ==
    /\ nmsg + ndisc < MaxMessages
    /\ \E d \in Deliveries :
          LET routed == _process_message(d.topic, d.data)
          IN /\ routed.handler = "status"
             /\ StoreIngest(_handle_device_status_msg(IngestState, d.topic,
                                                      routed.data, now))
             /\ last_message' = Processed(d, {})
    /\ nmsg' = nmsg + 1
    /\ UNCHANGED <<metrics, discovery_completed, last_sync, resynced, ndisc,
                   nrestart, now, ctlRest, cronVars, engVars, svcVars>>

\* mqtt_client.py:470-484  a message that reaches no handler: a payload that
\* does not decode, or one that is not a JSON object on a topic without an
\* exact handler
DropMessage ==
    /\ nmsg + ndisc < MaxMessages
    /\ \E d \in Deliveries :
          /\ _process_message(d.topic, d.data).handler = "none"
          /\ last_message' = Processed(d, {})
    /\ emitted' = <<>>
    /\ nmsg' = nmsg + 1
    /\ UNCHANGED <<metrics, readings, values_cache, metric_cache, devices,
                   discovery_completed, last_sync, resynced, ndisc, nrestart, now,
                   ctlRest, cronVars, engVars, svcVars>>

\* datetime.utcnow() advances between messages
IngestTick ==
    /\ now < MaxClock
    /\ now' = now + 1
    /\ UNCHANGED <<metrics, ingVars, ctlRest, cronVars, engVars, svcVars>>

\* the backend restarts: MQTTClient() (mqtt_client.py:27-46), then
\* populate_cache_from_db (api.py:63) before the message processor starts
Restart ==
    /\ nrestart < MaxRestarts
    /\ metric_cache' = EmptyFn
    /\ discovery_completed' = {}
    /\ values_cache' \in populate_cache_from_db(metrics, readings)
    /\ nrestart' = nrestart + 1
    /\ UNCHANGED <<metrics, readings, devices, emitted, last_message, last_sync,
                   resynced, nmsg, ndisc, now, ctlRest, cronVars, engVars, svcVars>>

\* config.py:38  sensor_discovery_timeout (300 seconds), in clock units
sensor_discovery_timeout == 1
\* messages processed in a run of the device life cycle
MaxDeviceMessages == 2

\* persistence.py:190-205  mark_devices_inactive
mark_devices_inactive(table, cutoff) ==
    {IF r.last_seen < cutoff THEN Device(r.device_key, r.last_seen, FALSE) ELSE r :
        r \in table}

\* mqtt_client.py:865-893  mark_inactive_devices, the scheduled job
\* (main.py:67-72): devices not seen since the cutoff become inactive and a
\* device event is published for each of them
MarkInactiveDevices ==
    LET cutoff_time == now - sensor_discovery_timeout
        marked == mark_devices_inactive(devices, cutoff_time)
        inactive == {r \in marked : r.last_seen < cutoff_time}
    IN /\ inactive # {}
       /\ devices' = marked
       /\ \E order \in [1..Cardinality(inactive) -> inactive] :
             /\ \A i, j \in DOMAIN order : i # j => order[i] # order[j]
             /\ emitted' = [i \in DOMAIN order |->
                               Event("device", "", order[i].device_key,
                                     order[i].last_seen, NoneStr, <<>>)]
       /\ was_inactive' = was_inactive \cup DeviceKeys(inactive)
       /\ UNCHANGED <<metrics, readings, values_cache, metric_cache,
                      discovery_completed, last_message, last_sync, resynced,
                      nmsg, ndisc, nrestart, now, ctlRest, cronVars, engVars,
                      brokerVars, queueVars, envVars>>

\* heartbeat messages: of device g, of device h, with a device_id in the
\* payload that differs from the topic's, and with sensor values in the
\* payload
HeartbeatDeliveries ==
    { Delivery(<<Esp32, DevG, WHeartbeat>>, Telemetry(NoneStr, <<>>)),
      Delivery(<<Esp32, DevH, WHeartbeat>>, Telemetry(NoneStr, <<>>)),
      Delivery(<<Esp32, DevG, WHeartbeat>>, Telemetry(DevH, <<>>)),
      Delivery(<<Esp32, DevG, WHeartbeat>>,
               Telemetry(DevG, <<Value(KeyPh, V65), Value(KeyRelay1, On)>>)) }

\* faulty variant: the values of a heartbeat payload are cached
HandleHeartbeatCachesValues(st, device_id, data, timestamp) ==
    LET touched == _publish_device_event(_touch_device(st, device_id, timestamp),
                                         device_id, timestamp)
        named == {i \in DOMAIN data.values : TRUE}
    IN [touched EXCEPT
          !.values_cache =
              [p \in DOMAIN @ \cup {<<device_id, data.values[i].name>> : i \in named} |->
                  IF \E i \in named : p = <<device_id, data.values[i].name>>
                  THEN data.values[CHOOSE i \in named :
                                      p = <<device_id, data.values[i].name>>].value
                  ELSE @[p]]]

\* mqtt_client.py:806-815  _handle_heartbeat: the device is touched and a
\* device event is published; the payload is not looked at
_handle_heartbeat(st, device_id, data, timestamp) ==
    _publish_device_event(_touch_device(st, device_id, timestamp), device_id,
                          timestamp)

\* mqtt_client.py:788-790  a heartbeat message is processed
HandleHeartbeat ==
    /\ nmsg + ndisc < MaxMessages
    /\ \E d \in HeartbeatDeliveries :
          LET routed == _process_message(d.topic, d.data)
          IN /\ routed.handler = "heartbeat"
             /\ StoreIngest(_handle_heartbeat(IngestState, routed.data.device_id,
                                              routed.data, now))
             /\ last_message' = Processed(d, {})
    /\ nmsg' = nmsg + 1
    /\ UNCHANGED <<metrics, discovery_completed, last_sync, resynced, ndisc,
                   nrestart, now, ctlRest, cronVars, engVars, svcVars>>

\* a message of the device life cycle is processed
DeviceMessage ==
    /\ nmsg + ndisc < MaxDeviceMessages
    /\ \/ HandleDiscovery
       \/ HandleSensorData
       \/ HandleRelayStatus
       \/ HandleStatus
       \/ HandleHeartbeat

(***************************************************************************)
(* Automation engine: agents/gardener/automation_runner.py.  One cron      *)
(* expression, firing every CronPeriod seconds; times are seconds.         *)
(***************************************************************************)
\* seconds between two scheduled times of the cron expression
CronPeriod == 120
\* automation_runner.py:181  if time_since_prev < 60
CronGrace == 60
\* seconds the clock advances per step (the evaluation loop's interval)
CronStep == 5
\* last value of the engine's clock
MaxCronTime == 130
\* evaluation cycles per behaviour
MaxCycles == 3

Rule(id, conditions, actions) ==
    [id |-> id, conditions |-> conditions, actions |-> actions]

\* the enabled rules, in priority order: a cron rule, a cron rule that also
\* needs a sensor threshold, a cron rule whose only action has a type the
\* engine does not know
Rules ==
    << Rule("a", <<"cron">>, <<"set_actuator">>),
       Rule("b", <<"cron", "sensor_threshold">>, <<"set_actuator">>),
       Rule("c", <<"cron">>, <<"notify">>) >>

RuleIds == {Rules[i].id : i \in DOMAIN Rules}

\* croniter(expression, now).get_prev(): the latest scheduled time before now
get_prev(t) == ((t - 1) \div CronPeriod) * CronPeriod

\* automation_runner.py:151-187  _evaluate_cron
_evaluate_cron(last, rule_id, t) ==
    LET prev_time == get_prev(t)
    IN /\ rule_id \notin DOMAIN last \/ last[rule_id] < prev_time
       /\ t - prev_time < CronGrace

\* automation_runner.py:236-274  evaluate_rule: all_of with short circuit;
\* holds is the set of rules whose sensor threshold is met by the snapshot.
\* Returns whether the rule is met and whether its cron condition was true.
RECURSIVE EvaluateAllOf(_, _, _, _, _, _)
EvaluateAllOf(last, rule, i, holds, t, cron) ==
    IF i > Len(rule.conditions) THEN [met |-> TRUE, cron |-> cron]
    ELSE IF rule.conditions[i] = "cron"
    THEN IF _evaluate_cron(last, rule.id, t)
         THEN EvaluateAllOf(last, rule, i + 1, holds, t, TRUE)
         ELSE [met |-> FALSE, cron |-> cron]
    ELSE IF rule.id \in holds
         THEN EvaluateAllOf(last, rule, i + 1, holds, t, cron)
         ELSE [met |-> FALSE, cron |-> cron]

evaluate_rule(last, rule, holds, t) == EvaluateAllOf(last, rule, 1, holds, t, FALSE)

\* automation_runner.py:288-302  an action of a known type ran
\* automation_runner.py:276-306  execute_actions: the rule is marked executed,
\* at the time its actions are done, only if an action of a known type ran
actions_executed(rule) ==
    \E i \in DOMAIN rule.actions :
       rule.actions[i] \in {"set_actuator", "run_ai_agent"}

execute_actions(last, rule, done) ==
    IF actions_executed(rule)
    THEN [id \in DOMAIN last \cup {rule.id} |->
             IF id = rule.id THEN done ELSE last[id]]
    ELSE last

\* automation_runner.py:404-430  run_once over the rules from position i;
\* slow is the set of rules whose actions take CronStep seconds
RECURSIVE RunRules(_, _, _, _, _)
RunRules(cs, i, holds, slow, cycle) ==
    IF i > Len(Rules) THEN cs
    ELSE LET rule == Rules[i]
             result == evaluate_rule(cs.last, rule, holds, cs.t)
             entry == [rule |-> rule.id, tick |-> get_prev(cs.t),
                       cycle |-> cycle, time |-> cs.t]
             done == IF rule.id \in slow THEN cs.t + CronStep ELSE cs.t
             seen == IF result.cron THEN cs.cron_true \cup {entry}
                     ELSE cs.cron_true
         IN IF result.met
            THEN RunRules([t |-> done,
                           last |-> execute_actions(cs.last, rule, done),
                           cron_true |-> seen,
                           ran |-> IF actions_executed(rule)
                                   THEN cs.ran \cup {entry} ELSE cs.ran],
                          i + 1, holds, slow, cycle)
            ELSE RunRules([cs EXCEPT !.cron_true = seen], i + 1, holds, slow,
                          cycle)

InitCron ==
    /\ wallclock = 0
    /\ rule_last_executed = EmptyFn
    /\ cron_true = {}
    /\ ran = {}
    /\ slept = TRUE
    /\ ncycles = 0
    /\ cycle_starts = <<>>

\* automation_runner.py:404-430  one evaluation cycle
RunOnce ==
    /\ ncycles < MaxCycles
    /\ slept
    /\ \E holds \in SUBSET {"b"}, slow \in SUBSET {"a"} :
          \E cs \in {RunRules([t |-> wallclock, last |-> rule_last_executed,
                               cron_true |-> cron_true, ran |-> ran],
                              1, holds, slow, ncycles + 1)} :
             /\ wallclock' = cs.t
             /\ rule_last_executed' = cs.last
             /\ cron_true' = cs.cron_true
             /\ ran' = cs.ran
    /\ slept' = FALSE
    /\ ncycles' = ncycles + 1
    /\ cycle_starts' = Append(cycle_starts, wallclock)
    /\ UNCHANGED <<ctlVars, ingVars, engVars, svcVars>>

\* automation_runner.py:449  asyncio.sleep(interval): the clock advances
CronTick ==
    /\ wallclock < MaxCronTime
    /\ wallclock' = wallclock + CronStep
    /\ slept' = TRUE
    /\ UNCHANGED <<rule_last_executed, cron_true, ran, ncycles, cycle_starts,
                   ctlVars, ingVars, engVars, svcVars>>

(***************************************************************************)
(* Automation engine, rules and actuator commands:                         *)
(* agents/gardener/automation_runner.py and hydro_client.py.  A rule       *)
(* document is the list under "rules" of automation_rules.json; a value    *)
(* that is not a JSON object has is_dict = FALSE.                          *)
(***************************************************************************)
\* evaluation cycles per behaviour
MaxEngineCycles == 2
\* writes of the rule document per behaviour
MaxWrites == 1
\* telemetry messages per behaviour
MaxEngineMessages == 2

V60 == <<"6",".","0">>

\* float(value) for the values of the model, in tenths; float() raises
\* ValueError for "on" and "off"
IsFloat(s) == Len(s) = 3 /\ s[2] = "." /\ IsDigit(<<s[1]>>) /\ IsDigit(<<s[3]>>)
Float(s) == 10 * DigitVal(s[1]) + DigitVal(s[3])

\* a condition object; a key the object does not have is None
Condition(type, device_key, metric_key, operator, value) ==
    [is_dict |-> TRUE, type |-> type, device_key |-> device_key,
     metric_key |-> metric_key, operator |-> operator, value |-> value,
     start_time |-> NoneStr, end_time |-> NoneStr, days |-> <<>>,
     expression |-> NoneStr, _rule_id |-> NoneStr]

\* {"type": "time_range", "start_time": ..., "end_time": ...}
TimeRange(start_time, end_time) ==
    [Condition("time_range", NoneStr, NoneStr, NoneStr, NoneStr)
        EXCEPT !.start_time = start_time, !.end_time = end_time]

\* {"type": "days_of_week", "days": [...]}
DaysOfWeek(days) ==
    [Condition("days_of_week", NoneStr, NoneStr, NoneStr, NoneStr)
        EXCEPT !.days = days]

\* {"type": "cron", "expression": ...}
Cron(expression) ==
    [Condition("cron", NoneStr, NoneStr, NoneStr, NoneStr)
        EXCEPT !.expression = expression]

Action(type, device_key, actuator_key, state) ==
    [is_dict |-> TRUE, type |-> type, device_key |-> device_key,
     actuator_key |-> actuator_key, state |-> state]

\* an entry of an actions list that is not an object, e.g. a string
NotAnAction ==
    [is_dict |-> FALSE, type |-> "", device_key |-> NoneStr,
     actuator_key |-> NoneStr, state |-> NoneStr]

\* "conditions": {"all_of": [...], "any_of": [...]}, without any_of, or a
\* value that is not an object
AllAny(all_of, any_of) == [is_dict |-> TRUE, all_of |-> all_of, any_of |-> any_of]
Conditions(all_of) == AllAny(all_of, <<>>)
NotConditions == [is_dict |-> FALSE, all_of |-> <<>>, any_of |-> <<>>]

\* a rule of the document; priority None stands for a rule without the key
EngineRule(id, priority, enabled, conditions, actions) ==
    [id |-> id, priority |-> priority, enabled |-> enabled,
     conditions |-> conditions, actions |-> actions]

PhBelow6 == Condition("sensor_threshold", DevG, KeyPh, "less_than", V60)
PhAbove6 == Condition("sensor_threshold", DevG, KeyPh, "greater_than", V60)

\* the rule documents: in the first, a threshold rule that switches relay1
\* on; two rules of a higher, equal priority, of which the first has
\* conditions that are not an object and the second an action of an unknown
\* type and one that is not an object; a disabled rule without priority.  In
\* the second, the threshold rule is replaced by its opposite.
Documents ==
    << << EngineRule("w", 1, TRUE, Conditions(<<PhBelow6>>),
                     <<Action("set_actuator", DevG, KeyRelay1, On)>>),
          EngineRule("x", 5, TRUE, NotConditions,
                     <<Action("set_actuator", DevG, KeyRelay2, On)>>),
          EngineRule("y", 5, TRUE, Conditions(<<>>),
                     <<Action("notify", NoneStr, NoneStr, NoneStr), NotAnAction>>),
          EngineRule("z", None, FALSE, Conditions(<<>>),
                     <<Action("set_actuator", DevG, KeyRelay2, On)>>) >>,
       << EngineRule("w", 1, TRUE, Conditions(<<PhAbove6>>),
                     <<Action("set_actuator", DevG, KeyRelay1, Off)>>) >> >>

\* automation_runner.py:57  key=lambda r: r.get('priority', 0)
Priority(rule) == IF rule.priority = None THEN 0 ELSE rule.priority

\* faulty variant: a rule is placed before the rules of its own priority
InsertBeforeEqual(sorted, rule) ==
    LET before == SelectSeq(sorted, LAMBDA r : Priority(r) > Priority(rule))
        after == SelectSeq(sorted, LAMBDA r : Priority(r) <= Priority(rule))
    IN before \o <<rule>> \o after

\* sorted(..., reverse=True) is stable: a rule goes after the rules whose
\* priority is greater than or equal to its own
InsertByPriority(sorted, rule) ==
    LET before == SelectSeq(sorted, LAMBDA r : Priority(r) >= Priority(rule))
        after == SelectSeq(sorted, LAMBDA r : Priority(r) < Priority(rule))
    IN before \o <<rule>> \o after

\* automation_runner.py:55-59  sorted(data.get('rules', []), key=..., reverse=True)
RECURSIVE SortRules(_, _)
SortRules(sorted, data) ==
    IF data = <<>> THEN sorted
    ELSE SortRules(InsertByPriority(sorted, Head(data)), Tail(data))

\* hydro_client.py:95-122 and api.py:181-219, 342-367  latest_readings: for
\* every metric with readings, the value of a reading with the greatest
\* timestamp (the first row of the metric in the response)
latest_readings(table, rows) ==
    LET stored == {p \in DOMAIN table : ReadingsOf(rows, table[p].id) # {}}
    IN {f \in [stored -> {r.value : r \in rows}] :
           \A p \in stored : \E r \in LatestOf(rows, table[p].id) : r.value = f[p]}

\* api.py:181-219, 342-367  get_latest_readings: one snapshot for every row
\* of the join, that is for every reading of a metric whose timestamp equals
\* the greatest timestamp of that metric's readings
get_latest_readings(table, rows) ==
    {[device_key |-> x[1][1], metric_key |-> x[1][2],
      display_name |-> table[x[1]].display_name, unit |-> table[x[1]].unit,
      timestamp |-> x[2].timestamp, value |-> x[2].value] :
        x \in {y \in (DOMAIN table) \X rows :
                   /\ y[2].metric_id = table[y[1]].id
                   /\ y[2] \in LatestOf(rows, table[y[1]].id)}}

\* hydro_client.py:217-229 and api.py:627-652  get_actuator_modes
get_actuator_modes(table) ==
    LET actuators == {p \in DOMAIN table : table[p].metric_type = "actuator"}
    IN [p \in actuators |-> table[p].control_mode]

\* faulty variant: less_than and greater_than exchanged
EvaluateSensorThresholdSwapped(condition, snapshot) ==
    LET pair == <<condition.device_key, condition.metric_key>>
    IN /\ pair \in DOMAIN snapshot
       /\ IsFloat(snapshot[pair])
       /\ IsFloat(condition.value)
       /\ IF condition.operator = "less_than"
          THEN Float(snapshot[pair]) > Float(condition.value)
          ELSE Float(snapshot[pair]) < Float(condition.value)

\* automation_runner.py:189-234  _evaluate_sensor_threshold; an exception
\* (float() of a value that is not a number) gives False
_evaluate_sensor_threshold(condition, snapshot) ==
    LET pair == <<condition.device_key, condition.metric_key>>
    IN /\ pair \in DOMAIN snapshot
       /\ IsFloat(snapshot[pair])
       /\ IsFloat(condition.value)
       /\ LET current_value == Float(snapshot[pair])
              threshold == Float(condition.value)
          IN CASE condition.operator = "greater_than" -> current_value > threshold
               [] condition.operator = "less_than" -> current_value < threshold
               [] condition.operator = "equals" -> current_value = threshold
               [] condition.operator = "greater_than_or_equal" ->
                     current_value >= threshold
               [] condition.operator = "less_than_or_equal" ->
                     current_value <= threshold
               [] OTHER -> FALSE

SecondsPerDay == 24 * 60 * 60

\* "HH:MM" -> time(hour, minute), as seconds since midnight: split(':')
\* must give two parts, int() of each (digits, surrounding whitespace
\* allowed) an hour below 24 and a minute below 60; anything else raises
ParseTime(s) ==
    LET colons == {i \in DOMAIN s : s[i] = ":"}
        c == CHOOSE i \in colons : TRUE
        hh == Strip(SubSeq(s, 1, c - 1))
        mm == Strip(SubSeq(s, c + 1, Len(s)))
    IN IF /\ Cardinality(colons) = 1
          /\ IsDigit(hh) /\ IsDigit(mm)
          /\ ToInt(hh) < 24 /\ ToInt(mm) < 60
       THEN [raised |-> FALSE, seconds |-> (ToInt(hh) * 60 + ToInt(mm)) * 60]
       ELSE [raised |-> TRUE, seconds |-> 0]

\* automation_runner.py:115-138  _evaluate_time_range; datetime.now().time()
\* is the clock's time of day, seconds included
_evaluate_time_range(condition) ==
    LET start_str == IF condition.start_time = NoneStr
                     THEN <<"0","0",":","0","0">> ELSE condition.start_time
        end_str == IF condition.end_time = NoneStr
                   THEN <<"2","3",":","5","9">> ELSE condition.end_time
        start_time == ParseTime(start_str)
        end_time == ParseTime(end_str)
        current_time == wallclock % SecondsPerDay
    IN IF start_time.raised \/ end_time.raised THEN FALSE
       ELSE IF start_time.seconds <= end_time.seconds
       THEN start_time.seconds <= current_time /\ current_time <= end_time.seconds
       ELSE current_time >= start_time.seconds \/ current_time <= end_time.seconds

\* strftime('%A').lower() of the clock; the clock starts on a Thursday
DayNames ==
    << <<"t","h","u","r","s","d","a","y">>, <<"f","r","i","d","a","y">>,
       <<"s","a","t","u","r","d","a","y">>, <<"s","u","n","d","a","y">>,
       <<"m","o","n","d","a","y">>, <<"t","u","e","s","d","a","y">>,
       <<"w","e","d","n","e","s","d","a","y">> >>

\* automation_runner.py:139-148  _evaluate_days_of_week
_evaluate_days_of_week(condition) ==
    LET current_day == DayNames[((wallclock \div SecondsPerDay) % 7) + 1]
    IN \E i \in DOMAIN condition.days : Lower(condition.days[i]) = current_day

\* "*/2 * * * *": the cron expression whose period is CronPeriod seconds;
\* croniter raises for the other expressions of the model
CronExpression == <<"*","/","2"," ","*"," ","*"," ","*"," ","*">>

\* automation_runner.py:151-187  _evaluate_cron of a condition object: no
\* expression (157-159) or one croniter rejects (except, 185-187) is False
EvaluateCronCondition(condition) ==
    /\ Truthy(condition.expression)
    /\ condition.expression = CronExpression
    /\ _evaluate_cron(rule_last_executed, condition._rule_id, wallclock)

\* faulty variant: a condition of unknown type counts as met
EvaluateConditionUnknownIsMet(condition, snapshot) ==
    CASE condition.type = "time_range" -> _evaluate_time_range(condition)
      [] condition.type = "days_of_week" -> _evaluate_days_of_week(condition)
      [] condition.type = "sensor_threshold" ->
            _evaluate_sensor_threshold(condition, snapshot)
      [] condition.type = "cron" -> EvaluateCronCondition(condition)
      [] OTHER -> TRUE

\* automation_runner.py:83-113  evaluate_condition
evaluate_condition(condition, snapshot) ==
    CASE condition.type = "time_range" -> _evaluate_time_range(condition)
      [] condition.type = "days_of_week" -> _evaluate_days_of_week(condition)
      [] condition.type = "sensor_threshold" ->
            _evaluate_sensor_threshold(condition, snapshot)
      [] condition.type = "cron" -> EvaluateCronCondition(condition)
      [] OTHER -> FALSE

\* automation_runner.py:254-259  the all_of loop from position i: it returns
\* at the first condition that is not met; seen lists the conditions
\* evaluated so far
RECURSIVE EvaluateAllOfFrom(_, _, _, _)
EvaluateAllOfFrom(rule, snapshot, i, seen) ==
    LET all_of == rule.conditions.all_of
        here == Append(seen, <<"all_of", i>>)
    IN IF i > Len(all_of) THEN [raised |-> FALSE, met |-> TRUE, trace |-> seen]
       ELSE IF ~all_of[i].is_dict THEN [raised |-> TRUE, met |-> FALSE, trace |-> seen]
       ELSE IF evaluate_condition([all_of[i] EXCEPT !._rule_id = rule.id], snapshot)
       THEN EvaluateAllOfFrom(rule, snapshot, i + 1, here)
       ELSE [raised |-> FALSE, met |-> FALSE, trace |-> here]

\* faulty variant: the any_of loop goes on after a condition that is met
EvaluateAnyOfWithoutBreak(rule, snapshot, i, seen) ==
    LET any_of == rule.conditions.any_of
        all == seen \o [j \in 1..(Len(any_of) - i + 1) |-> <<"any_of", i + j - 1>>]
    IN [raised |-> \E j \in i..Len(any_of) : ~any_of[j].is_dict,
        met |-> \E j \in i..Len(any_of) :
                   /\ any_of[j].is_dict
                   /\ evaluate_condition([any_of[j] EXCEPT !._rule_id = rule.id],
                                         snapshot),
        trace |-> all]

\* automation_runner.py:262-272  the any_of loop from position i: it breaks
\* at the first condition that is met
RECURSIVE EvaluateAnyOfFrom(_, _, _, _)
EvaluateAnyOfFrom(rule, snapshot, i, seen) ==
    LET any_of == rule.conditions.any_of
        here == Append(seen, <<"any_of", i>>)
    IN IF i > Len(any_of) THEN [raised |-> FALSE, met |-> FALSE, trace |-> seen]
       ELSE IF ~any_of[i].is_dict THEN [raised |-> TRUE, met |-> FALSE, trace |-> seen]
       ELSE IF evaluate_condition([any_of[i] EXCEPT !._rule_id = rule.id], snapshot)
       THEN [raised |-> FALSE, met |-> TRUE, trace |-> here]
       ELSE EvaluateAnyOfFrom(rule, snapshot, i + 1, here)

\* automation_runner.py:236-274  evaluate_rule: conditions.get raises for
\* conditions that are not an object; all_of, then any_of when it is not
\* empty
EngineEvaluateRule(rule, snapshot) ==
    IF ~rule.conditions.is_dict
    THEN [raised |-> TRUE, met |-> FALSE, trace |-> <<>>]
    ELSE LET all == EvaluateAllOfFrom(rule, snapshot, 1, <<>>)
         IN IF all.raised \/ ~all.met \/ rule.conditions.any_of = <<>>
            THEN all
            ELSE EvaluateAnyOfFrom(rule, snapshot, 1, all.trace)

\* hydro_client.py:250-281 control_actuator and 124-164 control_actuators:
\* the body of POST /api/actuators/batch-control
control_actuator(device_key, actuator_key, state, source) ==
    [source |-> source, force |-> FALSE,
     commands |-> <<RawCommand(device_key, actuator_key, state)>>]

\* faulty variant: a command is sent whatever the mode and the known state
ExecuteSetActuatorAlways(action, modes, latest) ==
    control_actuator(action.device_key, action.actuator_key, action.state, SrcAi)

\* automation_runner.py:308-366  _execute_set_actuator with the modes and the
\* latest readings it fetched: the request it sends, or NoRequest.  The call
\* at 351-353 passes no source, so control_actuator's default "ai"
\* (hydro_client.py:256) is sent.
_execute_set_actuator(action, modes, latest) ==
    LET pair == <<action.device_key, action.actuator_key>>
        actuator_mode == IF pair \in DOMAIN modes THEN modes[pair] ELSE "None"
    IN IF actuator_mode # "auto" THEN NoRequest
       ELSE IF pair \in DOMAIN latest /\ latest[pair] = action.state THEN NoRequest
       ELSE control_actuator(action.device_key, action.actuator_key, action.state,
                             SrcAi)

\* a device_key that is a JSON list: modes.get(device_key, {}) raises
\* TypeError (unhashable), inside the try of _execute_set_actuator
Unhashable == <<"[]">>

\* automation_runner.py:315-366  the outcome of _execute_set_actuator: an
\* exception is caught at 365-366, a request is sent or, for an actuator
\* that is not in auto mode or is in the state already, skipped
SetActuatorOutcome(action, modes, latest) ==
    IF action.device_key = Unhashable THEN "error"
    ELSE IF _execute_set_actuator(action, modes, latest) = NoRequest THEN "skipped"
    ELSE "sent"

\* faulty variant: the failure of the agent leaves execute_actions
ExecuteRunAiAgentPropagates(action) ==
    CASE agent = "None" -> [raised |-> TRUE, outcome |-> "no_agent"]
      [] agent = "raises" -> [raised |-> TRUE, outcome |-> "error"]
      [] OTHER -> [raised |-> FALSE, outcome |-> "completed"]

\* automation_runner.py:368-402  _execute_run_ai_agent: without an agent an
\* error is logged (376-378); an exception of agent.run is caught (401-402)
_execute_run_ai_agent(action) ==
    CASE agent = "None" -> [raised |-> FALSE, outcome |-> "no_agent"]
      [] agent = "raises" -> [raised |-> FALSE, outcome |-> "error"]
      [] OTHER -> [raised |-> FALSE, outcome |-> "completed"]

\* automation_runner.py:276-306  execute_actions from position i: raised when
\* an action is not an object (action.get raises) or an action raises, the
\* request sent by a set_actuator action (the rules of the model send at most
\* one), whether an action of a known type ran, and the log of the actions
\* gone through with their outcomes
RECURSIVE EngineExecuteActions(_, _, _, _, _)
EngineExecuteActions(rule, i, modes, latest, done) ==
    IF i > Len(rule.actions) THEN [done EXCEPT !.finished = TRUE]
    ELSE IF ~rule.actions[i].is_dict THEN [done EXCEPT !.raised = TRUE]
    ELSE IF rule.actions[i].type = "set_actuator"
    THEN LET outcome == SetActuatorOutcome(rule.actions[i], modes, latest)
         IN EngineExecuteActions(
                rule, i + 1, modes, latest,
                [done EXCEPT
                   !.request = IF outcome = "sent"
                               THEN _execute_set_actuator(rule.actions[i], modes,
                                                          latest)
                               ELSE @,
                   !.actions_executed = TRUE,
                   !.log = Append(@, [index |-> i, outcome |-> outcome])])
    ELSE IF rule.actions[i].type = "run_ai_agent"
    THEN LET ran_agent == _execute_run_ai_agent(rule.actions[i])
             logged == [done EXCEPT
                          !.log = Append(@, [index |-> i,
                                             outcome |-> ran_agent.outcome])]
         IN IF ran_agent.raised THEN [logged EXCEPT !.raised = TRUE]
            ELSE EngineExecuteActions(rule, i + 1, modes, latest,
                                      [logged EXCEPT !.actions_executed = TRUE])
    ELSE EngineExecuteActions(
             rule, i + 1, modes, latest,
             [done EXCEPT !.log = Append(@, [index |-> i, outcome |-> "unknown"])])

\* faulty variant: an exception in a rule ends the cycle
NextRuleStopsOnError(n, i, raised) == IF raised THEN n + 1 ELSE i + 1

\* automation_runner.py:414-427  the loop goes on to the next rule, also
\* after the except clause of a rule
NextRule(n, i, raised) == i + 1

\* automation_runner.py:414-427  one pass of the loop body of run_once for
\* rule: what was evaluated, met and raised, and the request sent
RunRule(rule, snapshot, modes, latest) ==
    LET nothing == [raised |-> FALSE, finished |-> FALSE, request |-> NoRequest,
                    actions_executed |-> FALSE, log |-> <<>>]
        result == EngineEvaluateRule(rule, snapshot)
        executed == EngineExecuteActions(rule, 1, modes, latest, nothing)
    IN IF result.raised
       THEN [rule |-> rule.id, met |-> FALSE, raised |-> TRUE, request |-> NoRequest,
             marked |-> FALSE, trace |-> result.trace, actions |-> <<>>]
       ELSE IF ~result.met
       THEN [rule |-> rule.id, met |-> FALSE, raised |-> FALSE,
             request |-> NoRequest, marked |-> FALSE, trace |-> result.trace,
             actions |-> <<>>]
       ELSE [rule |-> rule.id, met |-> TRUE, raised |-> executed.raised,
             request |-> executed.request,
             marked |-> executed.finished /\ executed.actions_executed,
             trace |-> result.trace, actions |-> executed.log]

\* telemetry of the engine specification: ph readings on the flat topic and
\* relay1 states on the device's relay topic
EngineDeliveries ==
    { Delivery(sensor_data_topic, Telemetry(DevG, <<Value(KeyPh, V58)>>)),
      Delivery(sensor_data_topic, Telemetry(DevG, <<Value(KeyPh, V65)>>)),
      Delivery(<<Esp32, DevG, WRelay, WStatus>>,
               Telemetry(NoneStr, <<Value(KeyRelay1, On)>>)),
      Delivery(<<Esp32, DevG, WRelay, WStatus>>,
               Telemetry(NoneStr, <<Value(KeyRelay1, Off)>>)) }

\* automation_runner.py:28-41 __init__ and 446 the initial load_rules() of
\* run_loop about to read the document; the document was written earlier
InitEngine ==
    /\ document = Documents[1]
    /\ doc_mtime = 0
    /\ unread = FALSE
    /\ rules = <<>>
    /\ last_load_time = None
    /\ loaded = <<>>
    /\ engine_pc = "load_initial"
    /\ rule_index = 1
    /\ sensor_data = EmptyFn
    /\ evaluated = <<>>
    /\ nwrites = 0
    /\ necycles = 0

\* the ingestion state after the discovery of device g
InitDiscovered ==
    /\ readings = {}
    /\ values_cache = EmptyFn
    /\ metric_cache = _cache_metrics(EmptyFn, metrics, DevG)
    /\ discovery_completed = {DevG}
    /\ devices = {Device(DevG, 0, TRUE)}
    /\ emitted = <<>>
    /\ last_message = NoMessage
    /\ last_sync = NoSync
    /\ resynced = FALSE
    /\ nmsg = 0
    /\ ndisc = 0
    /\ nrestart = 0

\* an operator saves another rule document; the file's mtime advances
WriteRules ==
    /\ nwrites < MaxWrites
    /\ now > doc_mtime
    /\ \E i \in DOMAIN Documents :
          /\ Documents[i] # document
          /\ document' = Documents[i]
    /\ doc_mtime' = now
    /\ unread' = TRUE
    /\ nwrites' = nwrites + 1
    /\ UNCHANGED <<rules, last_load_time, loaded, engine_pc, rule_index,
                   sensor_data, evaluated, necycles>>
    /\ UNCHANGED <<ctlVars, ingVars, cronVars, svcVars>>

\* automation_runner.py:76  the document changed since the last load
reload_rules_if_changed(last, mtime) == last = None \/ mtime > last

\* automation_runner.py:411  the cycle's snapshot is taken and the loop over
\* the rules starts
EnterRules ==
    /\ engine_pc' = "rules"
    /\ sensor_data' \in latest_readings(metrics, readings)
    /\ rule_index' = 1
    /\ evaluated' = <<>>

\* automation_runner.py:404-411  run_once starts: reload_rules_if_changed
\* (68-81), then the snapshot
StartCycle ==
    /\ Idle
    /\ engine_pc = "sleep"
    /\ necycles < MaxEngineCycles
    /\ IF reload_rules_if_changed(last_load_time, doc_mtime)
       THEN /\ engine_pc' = "load"
            /\ UNCHANGED <<rule_index, sensor_data, evaluated>>
       ELSE EnterRules
    /\ UNCHANGED <<document, doc_mtime, unread, rules, last_load_time, loaded,
                   nwrites, necycles>>
    /\ UNCHANGED <<ctlVars, ingVars, cronVars, svcVars>>

\* automation_runner.py:51-52  load_rules reads the document
LoadRead ==
    /\ engine_pc \in {"load_initial", "load"}
    /\ loaded' = document
    /\ unread' = FALSE
    /\ engine_pc' = IF engine_pc = "load" THEN "stamp" ELSE "stamp_initial"
    /\ UNCHANGED <<document, doc_mtime, rules, last_load_time, rule_index,
                   sensor_data, evaluated, nwrites, necycles>>
    /\ UNCHANGED <<ctlVars, ingVars, cronVars, svcVars>>

\* the content of the rule file between open(path, 'w'), which empties it,
\* and the end of json.dump: text that json.load rejects
Truncated == <<[truncated |-> TRUE]>>

\* faulty variant: a failed load is stamped like a successful one
LoadRulesStampsFailure(data, last, t) ==
    IF data = Truncated
    THEN [rules |-> <<>>, _last_load_time |-> t]
    ELSE [rules |-> SortRules(<<>>, data), _last_load_time |-> t]

\* automation_runner.py:43-66  load_rules with the data read, the load time
\* recorded before and the current time: json.load raising is caught at
\* 64-66, which empties self.rules and leaves _last_load_time alone
load_rules(data, last, t) ==
    IF data = Truncated
    THEN [rules |-> <<>>, _last_load_time |-> last]
    ELSE [rules |-> SortRules(<<>>, data), _last_load_time |-> t]

\* automation_runner.py:55-61  load_rules sorts what it read and stamps
\* _last_load_time with the current time; in a cycle, run_once goes on
LoadStamp ==
    /\ Idle
    /\ engine_pc \in {"stamp_initial", "stamp"}
    /\ LET load == load_rules(loaded, last_load_time, now)
       IN /\ rules' = load.rules
          /\ last_load_time' = load._last_load_time
    /\ IF engine_pc = "stamp" THEN EnterRules
       ELSE /\ engine_pc' = "sleep"
            /\ UNCHANGED <<rule_index, sensor_data, evaluated>>
    /\ UNCHANGED <<document, doc_mtime, unread, loaded, nwrites, necycles>>
    /\ UNCHANGED <<ctlVars, ingVars, cronVars, svcVars>>

\* automation_runner.py:414-427  the loop body for the next rule; the request
\* of a set_actuator action is answered by the batch handler (api.py:494-624)
RunOnceRule ==
    /\ Idle
    /\ engine_pc = "rules"
    /\ rule_index <= Len(rules)
    /\ LET rule == rules[rule_index]
       IN IF ~rule.enabled
          THEN /\ rule_index' = rule_index + 1
               /\ UNCHANGED <<evaluated, rule_last_executed, request, response,
                              forwarded, actuator_buckets, flushTasks, wire,
                              window>>
          ELSE \E latest \in latest_readings(metrics, readings) :
                  LET out == RunRule(rule, sensor_data,
                                     get_actuator_modes(metrics), latest)
                  IN /\ evaluated' = Append(evaluated,
                                            [rule |-> out.rule, met |-> out.met,
                                             raised |-> out.raised,
                                             trace |-> out.trace,
                                             actions |-> out.actions])
                     /\ rule_index' = NextRule(Len(rules), rule_index, out.raised)
                     /\ rule_last_executed' =
                           IF out.marked
                           THEN [id \in DOMAIN rule_last_executed \cup {rule.id} |->
                                    IF id = rule.id THEN now
                                    ELSE rule_last_executed[id]]
                           ELSE rule_last_executed
                     /\ IF out.request = NoRequest
                        THEN UNCHANGED <<request, response, forwarded,
                                         actuator_buckets, flushTasks, wire, window>>
                        ELSE \E r \in {BatchResult(out.request)} :
                                /\ request' = out.request
                                /\ response' = r.response
                                /\ forwarded' = r.forwarded
                                /\ actuator_buckets' = r.ps.buckets
                                /\ flushTasks' = r.ps.tasks
                                /\ wire' = r.ps.wire
                                /\ window' = r.ps.window
    /\ UNCHANGED <<document, doc_mtime, unread, rules, last_load_time, loaded,
                   engine_pc, sensor_data, nwrites, necycles>>
    /\ UNCHANGED <<metrics, is_connected, now, nreq, ingVars, wallclock, cron_true,
                   ran, slept, ncycles, cycle_starts, svcVars>>

\* automation_runner.py:449  the cycle is over, asyncio.sleep(interval)
EndCycle ==
    /\ Idle
    /\ engine_pc = "rules"
    /\ rule_index > Len(rules)
    /\ engine_pc' = "sleep"
    /\ necycles' = necycles + 1
    /\ UNCHANGED <<document, doc_mtime, unread, rules, last_load_time, loaded,
                   rule_index, sensor_data, evaluated, nwrites>>
    /\ UNCHANGED <<ctlVars, ingVars, cronVars, svcVars>>

\* a sensor-data or relay-status message is processed while the engine runs
ReceiveTelemetry ==
    /\ Idle
    /\ nmsg < MaxEngineMessages
    /\ \E d \in EngineDeliveries :
          LET routed == _process_message(d.topic, d.data)
          IN /\ StoreIngest(IF routed.handler = "sensor_data"
                            THEN _handle_sensor_data(IngestState, metrics,
                                                     discovery_completed, d.topic,
                                                     routed.data, {}, now)
                            ELSE _handle_relay_status(IngestState, metrics, d.topic,
                                                      routed.data, {}, now))
             /\ last_message' = Processed(d, {})
    /\ nmsg' = nmsg + 1
    /\ UNCHANGED <<metrics, discovery_completed, last_sync, resynced, ndisc,
                   nrestart, now, ctlRest, cronVars, engVars, svcVars>>

\* ---------------------------------------------------------------------------
\* The event broker (events.py): one bounded queue per subscriber
\* ---------------------------------------------------------------------------

\* asyncio.Queue(maxsize=1000), scaled down
QueueMaxSize == 2
\* subscribers (websocket connections) that can exist at once
MaxSubscribers == 2
\* events published in a run
MaxPublishes == 4

\* q.put_nowait(event): appends, or raises QueueFull and leaves q alone
put_nowait(q, event) ==
    IF Len(q) >= QueueMaxSize
    THEN [queue |-> q, full |-> TRUE]
    ELSE [queue |-> Append(q, event), full |-> FALSE]

\* faulty variant: a full queue makes the publisher give up on everyone
PublishBackpressure(subs, event) ==
    IF \E q \in DOMAIN subs : put_nowait(subs[q], event).full
    THEN subs
    ELSE [q \in DOMAIN subs |-> put_nowait(subs[q], event).queue]

\* EventBroker.publish: put_nowait on every subscriber, QueueFull swallowed
publish(subs, event) ==
    [q \in DOMAIN subs |-> put_nowait(subs[q], event).queue]

InitBroker ==
    /\ subscribers = EmptyFn
    /\ npublished = 0
    /\ last_dropped = {}
    /\ last_received = {}
    /\ was_inactive = {}

\* automation_runner.py:28-41  the agent the engine was constructed with:
\* none (cli.py:48), one whose run raises, one whose run returns
Agents == {"None", "raises", "returns"}

\* main.py:35  the service constructs the engine with its agent
InitAgent == agent = "returns"

InitTransport == transport = "ok"

\* mqtt_client.py:32  the incoming queue starts empty
InitQueue ==
    /\ message_queue = <<>>
    /\ popped = <<>>
    /\ narrived = 0
    /\ processing_task = None
    /\ ntasks = 0
    /\ nstarts = 0

\* EventBroker.subscribe, called by a websocket connection
Subscribe ==
    /\ \E q \in (1..MaxSubscribers) \ DOMAIN subscribers :
          subscribers' = [p \in DOMAIN subscribers \cup {q} |->
                              IF p = q THEN <<>> ELSE subscribers[p]]
    /\ UNCHANGED <<npublished, last_dropped, last_received, was_inactive, queueVars,
                   envVars>>
    /\ UNCHANGED <<ctlVars, ingVars, cronVars, engVars>>

\* EventBroker.unsubscribe, when the websocket connection ends
Unsubscribe ==
    /\ \E q \in DOMAIN subscribers :
          subscribers' = [p \in DOMAIN subscribers \ {q} |-> subscribers[p]]
    /\ UNCHANGED <<npublished, last_dropped, last_received, was_inactive, queueVars,
                   envVars>>
    /\ UNCHANGED <<ctlVars, ingVars, cronVars, engVars>>

\* ws_sensors: event = await queue.get()
QueueGet ==
    /\ \E q \in DOMAIN subscribers :
          /\ subscribers[q] /= <<>>
          /\ subscribers' = [subscribers EXCEPT ![q] = Tail(@)]
    /\ UNCHANGED <<npublished, last_dropped, last_received, was_inactive, queueVars,
                   envVars>>
    /\ UNCHANGED <<ctlVars, ingVars, cronVars, engVars>>

\* a caller awaits event_broker.publish(event); events are numbered
PublishEvent ==
    /\ npublished < MaxPublishes
    /\ subscribers' = publish(subscribers, npublished + 1)
    /\ npublished' = npublished + 1
    /\ last_dropped' = {q \in DOMAIN subscribers :
                            put_nowait(subscribers[q], npublished + 1).full}
    /\ last_received' = {q \in DOMAIN subscribers :
                            subscribers'[q] /= subscribers[q]}
    /\ UNCHANGED <<was_inactive, queueVars, envVars, ctlVars, ingVars, cronVars,
                   engVars>>

vars == <<ctlVars, ingVars, cronVars, engVars, svcVars>>

\* the backend with device g discovered in an earlier run
Init == InitCtl /\ InitIng /\ InitCron /\ InitEngine /\ InitBroker /\ InitQueue /\ InitAgent
        /\ InitTransport

\* a fresh installation: nothing stored yet
InitFresh ==
    /\ metrics = EmptyFn
    /\ is_connected = TRUE
    /\ actuator_buckets = EmptyFn
    /\ flushTasks = EmptyFn
    /\ now = 0
    /\ wire = EmptyFn
    /\ window = EmptyFn
    /\ request = NoRequest
    /\ response = NoResponse
    /\ forwarded = <<>>
    /\ nreq = 0
    /\ InitIng
    /\ InitCron
    /\ InitEngine
    /\ InitBroker
    /\ InitQueue
    /\ InitAgent
    /\ InitTransport

(***************************************************************************)
(* SpecBatch: the batch-control endpoint under arbitrary requests, mode    *)
(* changes and connection changes.                                         *)
(***************************************************************************)
NextBatch ==
    \/ ControlActuatorsBatch
    \/ Return
    \/ SetActuatorMode
    \/ OnConnect
    \/ OnDisconnect

SpecBatch == Init /\ [][NextBatch]_vars

(***************************************************************************)
(* SpecRate: the rate limiter under well-formed requests, the clock and    *)
(* the deferred flush tasks.                                               *)
(***************************************************************************)
NextRate ==
    \/ ControlPlain
    \/ DelayedFlush
    \/ Tick

SpecRate == Init /\ [][NextRate]_vars

(***************************************************************************)
(* SpecFlush: the rate limiter with a transport whose publish can raise.   *)
(***************************************************************************)
NextFlush ==
    \/ ControlAnswered
    \/ DelayedFlush
    \/ Tick
    \/ TransportChange

SpecFlush == Init /\ [][NextFlush]_vars

(***************************************************************************)
(* SpecArbiter: commands of the agent and the rule engine, mode changes,   *)
(* the clock and the deferred flush tasks.                                 *)
(***************************************************************************)
NextArbiter ==
    \/ ControlAutomated
    \/ SetActuatorMode
    \/ DelayedFlush
    \/ Tick

SpecArbiter == Init /\ [][NextArbiter]_vars

(***************************************************************************)
(* SpecIngest: discovery and telemetry messages, clock steps and restarts  *)
(* on a fresh installation.                                                *)
(***************************************************************************)
NextIngest ==
    \/ HandleDiscovery
    \/ HandleSensorData
    \/ HandleRelayStatus
    \/ HandleStatus
    \/ DropMessage
    \/ SetActuatorMode
    \/ IngestTick
    \/ Restart

SpecIngest == InitFresh /\ [][NextIngest]_vars

(***************************************************************************)
(* SpecCron: evaluation cycles of the automation engine at arbitrary times. *)
(***************************************************************************)
NextCron ==
    \/ RunOnce
    \/ CronTick

SpecCron == Init /\ [][NextCron]_vars

(***************************************************************************)
(* SpecEngine: the automation engine's cycles over a discovered device,    *)
(* with telemetry, mode changes, connection changes, the clock and the     *)
(* deferred flush tasks.                                                   *)
(***************************************************************************)
\* device g discovered with sensor ph and actuator relay1, the engine
\* starting
InitAutomation ==
    /\ metrics = sync_device_metrics(
                     EmptyFn, DevG,
                     _collect_metric_definitions(
                         <<Item(KeyPh, NoneStr, NoneStr)>>,
                         <<Item(KeyRelay1, NoneStr, NoneStr)>>)).metrics
    /\ is_connected = TRUE
    /\ actuator_buckets = EmptyFn
    /\ flushTasks = EmptyFn
    /\ now = 0
    /\ wire = EmptyFn
    /\ window = EmptyFn
    /\ request = NoRequest
    /\ response = NoResponse
    /\ forwarded = <<>>
    /\ nreq = 0
    /\ InitDiscovered
    /\ InitCron
    /\ InitEngine
    /\ InitBroker
    /\ InitQueue
    /\ InitAgent
    /\ InitTransport

NextEngine ==
    \/ StartCycle
    \/ LoadRead
    \/ LoadStamp
    \/ RunOnceRule
    \/ EndCycle
    \/ Return
    \/ ReceiveTelemetry
    \/ SetActuatorMode
    \/ OnConnect
    \/ OnDisconnect
    \/ DelayedFlush
    \/ Tick

SpecEngine == InitAutomation /\ [][NextEngine]_vars

(***************************************************************************)
(* SpecRules: the engine's cycles while the rule document is written; no   *)
(* telemetry arrives and no actuator is in auto mode.                      *)
(***************************************************************************)
NextRules ==
    \/ WriteRules
    \/ StartCycle
    \/ LoadRead
    \/ LoadStamp
    \/ RunOnceRule
    \/ EndCycle
    \/ Tick

SpecRules == InitAutomation /\ [][NextRules]_vars

\* rule_manager.py:52 and tools.py:366  open(self.rules_path, 'w') of
\* save_rules_file: the file is emptied and its mtime set
OpenRules ==
    /\ nwrites < MaxWrites
    /\ document # Truncated
    /\ document' = Truncated
    /\ doc_mtime' = now
    /\ UNCHANGED <<unread, rules, last_load_time, loaded, engine_pc, rule_index,
                   sensor_data, evaluated, nwrites, necycles>>
    /\ UNCHANGED <<ctlVars, ingVars, cronVars, svcVars>>

\* rule_manager.py:53 and tools.py:367  json.dump(data, f) and the close of
\* the file: the new document is complete
DumpRules ==
    /\ document = Truncated
    /\ \E i \in DOMAIN Documents : document' = Documents[i]
    /\ doc_mtime' = now
    /\ unread' = TRUE
    /\ nwrites' = nwrites + 1
    /\ UNCHANGED <<rules, last_load_time, loaded, engine_pc, rule_index,
                   sensor_data, evaluated, necycles>>
    /\ UNCHANGED <<ctlVars, ingVars, cronVars, svcVars>>

\* the engine and a writer of the rule file in another process
NextRuleFile ==
    \/ OpenRules
    \/ DumpRules
    \/ StartCycle
    \/ LoadRead
    \/ LoadStamp
    \/ RunOnceRule
    \/ EndCycle
    \/ Tick

SpecRuleFile == InitAutomation /\ [][NextRuleFile]_vars

\* the event broker alone: subscribers come and go, events are published
NextBroker ==
    \/ Subscribe
    \/ Unsubscribe
    \/ QueueGet
    \/ PublishEvent

SpecBroker == Init /\ [][NextBroker]_vars

\* Inputs of the condition evaluation: conditions that are met (ph is 5.8),
\* not met, and of a type the engine does not know
UnknownCondition == Condition("weather", NoneStr, NoneStr, NoneStr, NoneStr)
PlainConditions == {PhBelow6, PhAbove6, UnknownCondition}

\* conditions that cannot be evaluated: a metric or a device the snapshot
\* does not hold, an operator the engine does not know, a cron condition
\* without expression, with an empty one and with one croniter rejects
BrokenConditions ==
    { Condition("sensor_threshold", DevG, KeyXx, "less_than", V60),
      Condition("sensor_threshold", DevH, KeyPh, "less_than", V60),
      Condition("sensor_threshold", DevG, KeyPh, "below", V60),
      UnknownCondition,
      Cron(NoneStr), Cron(<<>>), Cron(<<"*","/","x">>) }

\* start and end times of the time ranges; None is a missing key
RangeTimes ==
    { NoneStr, <<"0","0",":","0","0">>, <<"0","8",":","0","0">>,
      <<"2","2",":","0","0">>, <<"2","3",":","5","9">> }

\* instants of the clock, in seconds since midnight: midnight, and the
\* second before, the first second and the thirtieth second of 08:00, 22:00
\* and 23:59
Instants ==
    {0} \cup UNION {{m * 60 - 1, m * 60, m * 60 + 30} :
                       m \in {8 * 60, 22 * 60, 23 * 60 + 59}}

MaxConditions == 2
MaxFailingActions == 2

\* actions that do nothing or fail: a run of the agent, a set_actuator for
\* an actuator that is not registered (its mode is not auto) and one whose
\* device_key makes it raise; and the action that switches relay1 on
RunAgent == Action("run_ai_agent", NoneStr, NoneStr, NoneStr)
SetRelay2On == Action("set_actuator", DevG, KeyRelay2, On)
SetUnhashable == Action("set_actuator", Unhashable, KeyRelay1, On)
SetRelay1On == Action("set_actuator", DevG, KeyRelay1, On)
FailingActions == {RunAgent, SetRelay2On, SetUnhashable}

\* the rules evaluated: every all_of and any_of of up to two plain
\* conditions, enabled or not; one broken condition; one time range; and a
\* rule whose first action has an unknown type; and rules whose action that
\* switches relay1 on comes after actions that fail
InputRules ==
    {EngineRule("r", 1, enabled, AllAny(all_of, any_of), <<>>) :
        enabled \in BOOLEAN,
        all_of \in SeqsUpTo(PlainConditions, MaxConditions),
        any_of \in SeqsUpTo(PlainConditions, MaxConditions)}
    \cup {EngineRule("r", 1, TRUE, Conditions(<<c>>), <<>>) : c \in BrokenConditions}
    \cup {EngineRule("r", 1, TRUE, Conditions(<<TimeRange(a, b)>>), <<>>) :
             a \in RangeTimes, b \in RangeTimes}
    \cup {EngineRule("r", 1, TRUE, Conditions(<<PhBelow6>>),
                     before \o <<SetRelay1On>> \o after) :
             before \in SeqsUpTo(FailingActions, MaxFailingActions),
             after \in {<<>>, <<RunAgent>>}}
    \cup {EngineRule("r", 1, TRUE, AllAny(<<>>, <<UnknownCondition, PhBelow6>>),
                     <<Action("notify", NoneStr, NoneStr, NoneStr),
                       Action("set_actuator", DevG, KeyRelay1, On)>>)}

HasAgentRun(rule) ==
    \E i \in DOMAIN rule.actions : rule.actions[i].type = "run_ai_agent"

HasTimeRange(rule) ==
    \E i \in DOMAIN rule.conditions.all_of :
       rule.conditions.all_of[i].type = "time_range"

\* the engine about to evaluate one loaded rule: ph of device g was reported
\* as 5.8, relay1 is in auto mode and has not reported a state
InitConditions ==
    /\ LET table == sync_device_metrics(
                        EmptyFn, DevG,
                        _collect_metric_definitions(
                            <<Item(KeyPh, NoneStr, NoneStr)>>,
                            <<Item(KeyRelay1, NoneStr, NoneStr)>>)).metrics
       IN metrics = [p \in DOMAIN table |->
                        IF table[p].metric_type = "actuator"
                        THEN [table[p] EXCEPT !.control_mode = "auto"]
                        ELSE table[p]]
    /\ is_connected = TRUE
    /\ actuator_buckets = EmptyFn
    /\ flushTasks = EmptyFn
    /\ now = 0
    /\ wire = EmptyFn
    /\ window = EmptyFn
    /\ request = NoRequest
    /\ response = NoResponse
    /\ forwarded = <<>>
    /\ nreq = 0
    /\ readings = insert_reading({}, metrics[<<DevG, KeyPh>>].id, V58, 0)
    /\ values_cache = _update_cache_value(EmptyFn, DevG, KeyPh, V58)
    /\ metric_cache = _cache_metrics(EmptyFn, metrics, DevG)
    /\ discovery_completed = {DevG}
    /\ devices = {Device(DevG, 0, TRUE)}
    /\ emitted = <<>>
    /\ last_message = NoMessage
    /\ last_sync = NoSync
    /\ resynced = FALSE
    /\ nmsg = 0
    /\ ndisc = 0
    /\ nrestart = 0
    /\ rule_last_executed = EmptyFn
    /\ cron_true = {}
    /\ ran = {}
    /\ slept = TRUE
    /\ ncycles = 0
    /\ cycle_starts = <<>>
    /\ document = Documents[1]
    /\ doc_mtime = 0
    /\ unread = FALSE
    /\ \E rule \in InputRules :
          /\ rules = <<rule>>
          /\ loaded = <<rule>>
          /\ wallclock \in Instants
          /\ HasTimeRange(rule) \/ wallclock = 0
          /\ HasAgentRun(rule) \/ agent = "returns"
    /\ last_load_time = 0
    /\ engine_pc = "rules"
    /\ rule_index = 1
    /\ sensor_data \in latest_readings(metrics, readings)
    /\ evaluated = <<>>
    /\ nwrites = 0
    /\ necycles = 0
    /\ InitBroker
    /\ InitQueue
    /\ agent \in Agents
    /\ transport = "ok"

\* run_once evaluating the loaded rule
NextConditions ==
    \/ RunOnceRule
    \/ Return

SpecConditions == InitConditions /\ [][NextConditions]_vars

(***************************************************************************)
(* The network callback and the message processor (mqtt_client.py).        *)
(***************************************************************************)
MaxArrivals == 3

\* a message as the transport hands it to the callback: the topic, and the
\* payload bytes, which are UTF-8 text or not
Arrival(topic, data, is_utf8) == [topic |-> topic, data |-> data, is_utf8 |-> is_utf8]

\* the messages that arrive: a discovery, a telemetry and a relay-status
\* message of device g, a telemetry message that also names a metric the
\* discovery did not announce, a message on a topic without a message type,
\* text that is not JSON, and bytes that are not text
Arrivals ==
    { Arrival(<<Esp32, DevG, WDiscovery>>,
              Discovery(<<Item(KeyPh, NoneStr, NoneStr)>>,
                        <<Item(KeyRelay1, <<"P">>, NoneStr)>>), TRUE),
      Arrival(sensor_data_topic, Telemetry(DevG, <<Value(KeyPh, V58)>>), TRUE),
      Arrival(<<Esp32, DevG, WRelay, WStatus>>,
              Telemetry(DevG, <<Value(KeyRelay1, On)>>), TRUE),
      Arrival(sensor_data_topic,
              Telemetry(DevG, <<Value(KeyPh, V65), Value(KeyXx, V58)>>), TRUE),
      Arrival(<<Esp32, DevG>>, Telemetry(DevG, <<Value(KeyPh, V58)>>), TRUE),
      Arrival(sensor_data_topic, Undecodable, TRUE),
      Arrival(sensor_data_topic, Undecodable, FALSE) }

\* faulty variant: a queue of one slot, whose put waits while it is taken
PutBounded(q, item) ==
    [blocked |-> Len(q) >= 1, queue |-> Append(q, item)]

\* mqtt_client.py:32  queue.Queue() has no maxsize: put appends and never
\* waits for a free slot
Put(q, item) ==
    [blocked |-> FALSE, queue |-> Append(q, item)]

\* mqtt_client.py:430-441  _on_message, on the transport's thread: decode
\* the payload and put (topic, payload) on the queue; a payload that is not
\* UTF-8 raises in decode, which the except clause logs
OnMessageOf(msg) ==
    /\ narrived < MaxArrivals
    /\ IF msg.is_utf8
       THEN LET put == Put(message_queue, Delivery(msg.topic, msg.data))
            IN /\ ~put.blocked
               /\ message_queue' = put.queue
       ELSE UNCHANGED message_queue
    /\ narrived' = narrived + 1
    /\ UNCHANGED <<popped, processing_task, ntasks, nstarts, brokerVars,
                   was_inactive, envVars>>
    /\ UNCHANGED <<ctlVars, ingVars, cronVars, engVars>>

\* the transport calls the callback with a message that arrived
OnMessage == \E msg \in Arrivals : OnMessageOf(msg)

MaxStarts == 2

\* faulty variant: every call creates a processor task
StartMessageProcessorAlways(task, n) ==
    [processing_task |-> n + 1, ntasks |-> n + 1]

\* mqtt_client.py:443-446  start_message_processor: a task is created only
\* when none was created before
start_message_processor(task, n) ==
    IF task = None
    THEN [processing_task |-> n + 1, ntasks |-> n + 1]
    ELSE [processing_task |-> task, ntasks |-> n]

\* main.py:36 and api.py:65  the application calls start_message_processor
StartMessageProcessor ==
    /\ nstarts < MaxStarts
    /\ nstarts' = nstarts + 1
    /\ LET started == start_message_processor(processing_task, ntasks)
       IN /\ processing_task' = started.processing_task
          /\ ntasks' = started.ntasks
    /\ UNCHANGED <<message_queue, popped, narrived, brokerVars, was_inactive,
                   envVars>>
    /\ UNCHANGED <<ctlVars, ingVars, cronVars, engVars>>

\* the pairs taken off the queue whose processing has not finished
InFlight == Len(popped) - (nmsg + ndisc)

\* mqtt_client.py:454  a processor task that is not processing a pair takes
\* the oldest pair off the queue
GetMessage ==
    /\ message_queue # <<>>
    /\ InFlight < ntasks
    /\ popped' = Append(popped, Head(message_queue))
    /\ message_queue' = Tail(message_queue)
    /\ UNCHANGED <<narrived, processing_task, ntasks, nstarts, brokerVars,
                   was_inactive, envVars>>
    /\ UNCHANGED <<ctlVars, ingVars, cronVars, engVars>>

\* mqtt_client.py:455  _process_message of the oldest pair taken and not yet
\* processed
ProcessTaken ==
    /\ InFlight > 0
    /\ \/ HandleDiscovery
       \/ HandleSensorData
       \/ HandleRelayStatus
       \/ HandleStatus
       \/ DropMessage
    /\ last_message'.topic = popped[nmsg + ndisc + 1].topic
    /\ last_message'.data = popped[nmsg + ndisc + 1].data

NextTransport ==
    \/ StartMessageProcessor
    \/ OnMessage
    \/ GetMessage
    \/ ProcessTaken

SpecTransport == InitFresh /\ [][NextTransport]_vars

\* the life cycle of a device: messages, the clock, the inactivity job
NextDevices ==
    \/ DeviceMessage
    \/ MarkInactiveDevices
    \/ IngestTick

SpecDevices == Init /\ [][NextDevices]_vars

(***************************************************************************)
(* Properties of the batch-control endpoint (SpecBatch).                   *)
(***************************************************************************)
\* the permission table of spec section 4.6
TableAllowed(mode, source, force) ==
    \/ mode = "auto" /\ source \in {SrcAi, SrcAutomation}
    \/ mode = "auto" /\ source = SrcUser /\ force
    \/ mode = "manual" /\ source = SrcUser

TableReason(mode) == IF mode = "auto" THEN ReasonAuto ELSE ReasonManual

\* a request has been answered with the full partition
Answered == response.status = 200 /\ "details" \in DOMAIN response

\* the request's commands as (device, actuator) pairs, and the state the last
\* command of the batch gives each pair
PairOf(command) ==
    <<Strip(command.device_id), RemoveSpaces(Lower(command.actuator_key))>>

RequestPairs == {PairOf(request.commands[i]) : i \in DOMAIN request.commands}

LastStateOf(pair) ==
    LET last == CHOOSE i \in DOMAIN request.commands :
                    /\ PairOf(request.commands[i]) = pair
                    /\ \A j \in DOMAIN request.commands :
                          PairOf(request.commands[j]) = pair => j <= i
    IN Lower(request.commands[last].state)

RegisteredActuator(pair) ==
    pair \in DOMAIN metrics /\ metrics[pair].metric_type = "actuator"

RegistryMode(pair) ==
    IF metrics[pair].control_mode = "auto" THEN "auto" ELSE "manual"

EntryPair(e) == <<e.device_id, e.actuator_key>>

CountOf(list, pair) == Cardinality({i \in DOMAIN list : EntryPair(list[i]) = pair})

\* what was handed to the Publisher, as (device, actuator, state) triples
ForwardedTriples ==
    UNION { {<<forwarded[i].k, forwarded[i].v[j].actuator_key,
               forwarded[i].v[j].state>> : j \in DOMAIN forwarded[i].v} :
            i \in DOMAIN forwarded }

\* C1: for all 2 x 3 x 2 combinations of (mode, source, force) is_allowed gives
\* the permission table, a blocked result carrying the reason of its mode (AUTO
\* mode / MANUAL mode); and every arbitration in a response follows the table:
\* an entry is blocked only where the table blocks, with the reason of that
\* mode, and processed only where it allows.
C1_PermissionTable ==
    /\ \A mode \in {"auto", "manual"}, source \in {SrcUser, SrcAi, SrcAutomation},
          force \in BOOLEAN :
          /\ is_allowed(mode, source, force)[1] = TableAllowed(mode, source, force)
          /\ ~TableAllowed(mode, source, force) =>
                is_allowed(mode, source, force)[2] = TableReason(mode)
    /\ Answered =>
        /\ \A i \in DOMAIN response.blocked :
              LET e == response.blocked[i]
              IN /\ e.mode \in {"auto", "manual"}
                 /\ e.source \in {SrcUser, SrcAi, SrcAutomation}
                 /\ ~TableAllowed(e.mode, e.source, request.force)
                 /\ e.reason = TableReason(e.mode)
        /\ \A i \in DOMAIN response.details :
              TableAllowed(response.details[i].mode, response.source, request.force)
        /\ \A pair \in RequestPairs :
              RegisteredActuator(pair) =>
                 (CountOf(response.details, pair) = 1
                     <=> TableAllowed(RegistryMode(pair), response.source,
                                      request.force))

\* C1 witness: a response that processed a forced user command (the emergency
\* override) on an actuator in auto mode
C1_Witness ==
    /\ Answered
    /\ request.force
    /\ response.source = SrcUser
    /\ \E i \in DOMAIN response.details : response.details[i].mode = "auto"


\* the commands a topic's publishes and accumulator hold, as triples
PayloadTriple(p) == <<p.device_id, p.actuator, p.state>>

WireTriples(w) ==
    UNION { UNION { {PayloadTriple(w[t][i].payload.commands[j]) :
                        j \in DOMAIN w[t][i].payload.commands} :
                    i \in DOMAIN w[t] } :
            t \in DOMAIN w }

AccumulatedTriples(b) ==
    UNION { {PayloadTriple(b[t].accumulator[i].v) : i \in DOMAIN b[t].accumulator} :
            t \in DOMAIN b }

\* a batch-control request is handled in this step
BatchStep == nreq' = nreq + 1

\* C5: a batch-control request hands the Publisher only commands whose actuator
\* is registered and whose (mode, source, force) the permission table allows;
\* nothing else reaches an accumulator or the transport; and a user command
\* without force on an actuator in auto mode is returned in blocked with the
\* AUTO-mode reason and is not handed over.
C5_OnlyAllowedForwarded ==
    [][BatchStep =>
        /\ \A tr \in ForwardedTriples' :
              /\ RegisteredActuator(<<tr[1], tr[2]>>)
              /\ TableAllowed(RegistryMode(<<tr[1], tr[2]>>),
                              NormalizeSource(request'.source), request'.force)
        /\ WireTriples(wire') \cup AccumulatedTriples(actuator_buckets')
              \subseteq (WireTriples(wire) \cup AccumulatedTriples(actuator_buckets)
                            \cup ForwardedTriples')
        /\ Answered' =>
              \A pair \in RequestPairs' :
                 (/\ RegisteredActuator(pair)
                  /\ RegistryMode(pair) = "auto"
                  /\ response'.source = SrcUser
                  /\ ~request'.force)
                 => /\ \E i \in DOMAIN response'.blocked :
                          /\ EntryPair(response'.blocked[i]) = pair
                          /\ response'.blocked[i].reason = ReasonAuto
                    /\ \A tr \in ForwardedTriples' : <<tr[1], tr[2]>> # pair
    ]_vars

\* C5 witness: a user request without force was answered with a command blocked
\* for AUTO mode while another command of the same request was published
C5_Witness ==
    /\ Answered
    /\ ~request.force
    /\ response.source = SrcUser
    /\ \E i \in DOMAIN response.blocked : response.blocked[i].reason = ReasonAuto
    /\ ForwardedTriples # {}
    /\ ForwardedTriples \subseteq WireTriples(wire) \cup AccumulatedTriples(actuator_buckets)

\* C6: the answered request's commands are de-duplicated by (device, actuator),
\* the last command of the batch giving the state; every de-duplicated command
\* is in exactly one of missing (not a registered actuator), blocked (denied)
\* and processed (handed to the Publisher); processed + skipped is the number
\* of de-duplicated commands and skipped = |missing| + |blocked|.
C6_Partition ==
    Answered =>
        /\ \A pair \in RequestPairs :
              /\ CountOf(response.missing, pair) + CountOf(response.blocked, pair)
                    + CountOf(response.details, pair) = 1
              /\ CountOf(response.missing, pair) = 1 <=> ~RegisteredActuator(pair)
              /\ CountOf(response.details, pair) = 1 =>
                    /\ \E i \in DOMAIN response.details :
                          /\ EntryPair(response.details[i]) = pair
                          /\ response.details[i].state = LastStateOf(pair)
                    /\ <<pair[1], pair[2], LastStateOf(pair)>> \in ForwardedTriples
        /\ \A tr \in ForwardedTriples : CountOf(response.details, <<tr[1], tr[2]>>) = 1
        /\ \A i \in DOMAIN response.missing : EntryPair(response.missing[i]) \in RequestPairs
        /\ \A i \in DOMAIN response.blocked : EntryPair(response.blocked[i]) \in RequestPairs
        /\ \A i \in DOMAIN response.details : EntryPair(response.details[i]) \in RequestPairs
        /\ response.processed = Len(response.details)
        /\ response.processed + response.skipped = Cardinality(RequestPairs)
        /\ response.skipped = Len(response.missing) + Len(response.blocked)

\* C6 witness: two commands for the same actuator, written differently and with
\* different states, were answered as one processed command with the last state
C6_Witness ==
    /\ Answered
    /\ Len(request.commands) = 2
    /\ Lower(request.commands[1].state) # Lower(request.commands[2].state)
    /\ response.processed = 1
    /\ response.skipped = 0
    /\ response.details[1].state = Lower(request.commands[2].state)


(***************************************************************************)
(* Properties of the rate limiter (SpecRate, FairSpecRate).                *)
(***************************************************************************)
FairSpecRate == SpecRate /\ WF_vars(DelayedFlush) /\ WF_vars(Tick)

\* C2: any two transport publishes on the same control topic are at least the
\* minimum inter-publish interval apart.
C2_MinIntervalBetweenPublishes ==
    \A t \in DOMAIN wire :
       \A i \in DOMAIN wire[t] :
          i > 1 => wire[t][i].time - wire[t][i - 1].time >= MinInterval

\* the keys of a sequence of submitted commands, and the last state of each
KeysOf(cmds) == {cmds[i].actuator : i \in DOMAIN cmds}

LastSubmitted(cmds, key) ==
    cmds[CHOOSE i \in DOMAIN cmds :
            /\ cmds[i].actuator = key
            /\ \A j \in DOMAIN cmds : cmds[j].actuator = key => j <= i].state

RECURSIVE AllCovered(_)
AllCovered(entries) ==
    IF entries = <<>> THEN <<>>
    ELSE AllCovered(SubSeq(entries, 1, Len(entries) - 1)) \o entries[Len(entries)].covers

\* every command payload ever published on a topic, in order
RECURSIVE AllSent(_)
AllSent(entries) ==
    IF entries = <<>> THEN <<>>
    ELSE AllSent(SubSeq(entries, 1, Len(entries) - 1))
            \o entries[Len(entries)].payload.commands

RateTopic == ControlTopic(DevG)

HasPending(t) ==
    t \in DOMAIN actuator_buckets /\ actuator_buckets[t].accumulator # <<>>

\* the topic's accumulator is empty and, for every actuator key submitted to
\* it, the last published state is the last submitted one
Delivered(t) ==
    /\ t \in DOMAIN actuator_buckets
    /\ actuator_buckets[t].accumulator = <<>>
    /\ window[t] = <<>>
    /\ LET submitted == AllCovered(wire[t])
           sent == AllSent(wire[t])
       IN \A key \in KeysOf(submitted) :
             /\ key \in KeysOf(sent)
             /\ LastSubmitted(sent, key) = LastSubmitted(submitted, key)

C7_CronTrueOncePerTick ==
    /\ \A e1, e2 \in cron_true \cup ran :
          (e1.rule = e2.rule /\ e1.tick = e2.tick) => e1.cycle = e2.cycle
    /\ \A e \in cron_true \cup ran :
          e.tick <= e.time /\ e.time - e.tick < CronGrace

C9_MetricTypeNeverChanges ==
    [][\A p \in DOMAIN metrics :
          /\ p \in DOMAIN metrics'
          /\ metrics'[p].metric_type = metrics[p].metric_type]_vars

\* definition lists as callers may pass them: a repeated key with different
\* fields, a padded key, a blank key, missing label and unit, a missing type
Definition(key, display_name, unit, metric_type) ==
    [metric_key |-> key, display_name |-> display_name, unit |-> unit,
     metric_type |-> metric_type]

SyncInputs ==
    { <<Definition(KeyPh, NoneStr, <<>>, "sensor")>>,
      <<Definition(KeyPh, <<"A">>, <<"u">>, "sensor"),
        Definition(<<"p","h"," ">>, <<"B">>, NoneStr, "actuator")>>,
      <<Definition(KeyRelay1, <<>>, <<"u">>, "actuator"),
        Definition(<<" ">>, NoneStr, NoneStr, "")>>,
      <<Definition(KeyXx, NoneStr, NoneStr, "sensor"),
        Definition(KeyRelay1, NoneStr, NoneStr, "")>>,
      <<Definition(KeyRelay2, <<"A">>, NoneStr, "actuator"),
        Definition(KeyXx, NoneStr, <<"u">>, "sensor"),
        Definition(KeyRelay2, NoneStr, <<>>, "sensor")>> }

SyncedTwice(table, device_key, metric_defs) ==
    sync_device_metrics(sync_device_metrics(table, device_key, metric_defs).metrics,
                        device_key, metric_defs).metrics

\* C10: applying a definition list to a device a second time creates no Metric
\* row and changes no metric's metric_type, display_name or unit: the table
\* after the second application is the table after the first.  Checked for
\* the definitions of every discovery, applied again to the table the
\* discovery left, and for the lists of SyncInputs on every table reached.
C10_SyncIdempotent ==
    [][(ndisc' = ndisc + 1) =>
          /\ sync_device_metrics(metrics', last_sync'.device_key,
                                 last_sync'.definitions).metrics = metrics'
          /\ \A defs \in SyncInputs :
                SyncedTwice(metrics', DevG, defs)
                   = sync_device_metrics(metrics', DevG, defs).metrics
    ]_vars

\* C10 witness: a discovery repeated the definitions of the one before it, on
\* a table holding a labelled metric and a metric with a unit
C10_Witness ==
    /\ resynced
    /\ ndisc >= 2
    /\ \E p \in DOMAIN metrics : metrics[p].unit # NoneStr

\* C11: a sensor-data, relay-status, status or discovery message whose device
\* key can be derived neither from the payload (device_id) nor from the topic
\* (_device_id_from_topic) creates no device and no reading, leaves the value
\* cache unchanged, and causes exactly one error event, with code
\* missing_device_id.
C11_MissingDeviceIdReported ==
    [][(/\ nmsg' + ndisc' # nmsg + ndisc
        /\ ~Truthy(DerivedId(last_message'.data))
        /\ ~Truthy(_device_id_from_topic(last_message'.topic)))
       => /\ devices' = devices
          /\ readings' = readings
          /\ values_cache' = values_cache
          /\ Len(emitted') = 1
          /\ emitted'[1].type = "error"
          /\ emitted'[1].code = "missing_device_id"]_vars

\* the discovery message of the step was accepted for device d
DiscoveredFor(d) ==
    /\ ndisc' = ndisc + 1
    /\ Truthy(d)
    /\ d = DeviceIdOf(last_message'.topic,
                      _process_message(last_message'.topic, last_message'.data).data)

MsgDevice(m) == DeviceIdOf(m.topic, _process_message(m.topic, m.data).data)

MsgValues(m) ==
    LET data == _process_message(m.topic, m.data).data
    IN IF m.handler = "sensor_data" THEN data.values
       ELSE IF m.handler = "relay_status"
       THEN SelectSeq(data.values, LAMBDA v : StartsWith(v.name, RelayPrefix))
       ELSE <<>>

\* message m is a telemetry message that the current state can process to
\* the end: its device is identified (and discovered, for sensor data), it
\* has values, and every key is a registered metric
TelemetryCompletes(m) ==
    /\ m.handler \in {"sensor_data", "relay_status"}
    /\ Truthy(MsgDevice(m))
    /\ m.handler = "sensor_data" => MsgDevice(m) \in discovery_completed
    /\ MsgValues(m) # <<>>
    /\ \A i \in DOMAIN MsgValues(m) :
          <<MsgDevice(m), MsgValues(m)[i].name>> \in DOMAIN metrics

C20_OneReadingEventPerMessage ==
    [][nmsg' = nmsg + 1 =>
          LET m == last_message'
              reading == SelectSeq(emitted', LAMBDA e : e.type = "reading")
          IN IF TelemetryCompletes(m)
             THEN /\ Len(reading) = 1
                  /\ reading[1].device_id = MsgDevice(m)
                  /\ reading[1].timestamp = now
                  /\ reading[1].values = MsgValues(m)
             ELSE reading = <<>>]_vars

\* a message with two values was processed and one reading event with both
\* values was published
C20_Witness ==
    /\ last_message.handler \in {"sensor_data", "relay_status"}
    /\ \E j \in DOMAIN emitted :
          /\ emitted[j].type = "reading"
          /\ Len(emitted[j].values) = 2
          /\ emitted[j].values = MsgValues(last_message)

\* the engine passes through the loop body of run_once for an enabled rule
RuleStep ==
    /\ engine_pc = "rules"
    /\ rule_index <= Len(rules)
    /\ rule_index' # rule_index
    /\ rules[rule_index].enabled

\* the step is for the rule "ph below 6.0 switches relay1 on", the cycle's
\* snapshot has ph = 5.8, and relay1 is in auto mode
ThresholdStep ==
    /\ RuleStep
    /\ rules[rule_index].conditions = Conditions(<<PhBelow6>>)
    /\ rules[rule_index].actions = <<Action("set_actuator", DevG, KeyRelay1, On)>>
    /\ <<DevG, KeyPh>> \in DOMAIN sensor_data
    /\ sensor_data[<<DevG, KeyPh>>] = V58
    /\ metrics[<<DevG, KeyRelay1>>].control_mode = "auto"

\* the latest readings of an actuator all have the given state
LatestStateIs(device_key, actuator_key, state) ==
    /\ <<device_key, actuator_key>> \in DOMAIN metrics
    /\ LET latest == LatestOf(readings, metrics[<<device_key, actuator_key>>].id)
       IN latest # {} /\ \A r \in latest : r.value = state

C14_SourceIsAutomation ==
    request # NoRequest => NormalizeSource(request.source) = SrcAutomation

\* C15: a set_actuator action causes no publish when its actuator is not in
\* auto mode, or when the latest known state of the actuator equals the
\* desired state.
C15_NoPublishWhenBlockedOrNoOp ==
    [][\A i \in 1..2 :
          (/\ RuleStep
           /\ i \in DOMAIN rules[rule_index].actions
           /\ rules[rule_index].actions[i].is_dict
           /\ rules[rule_index].actions[i].type = "set_actuator"
           /\ LET action == rules[rule_index].actions[i]
                  pair == <<action.device_key, action.actuator_key>>
              IN \/ pair \notin DOMAIN metrics
                 \/ metrics[pair].metric_type # "actuator"
                 \/ metrics[pair].control_mode # "auto"
                 \/ LatestStateIs(action.device_key, action.actuator_key,
                                  action.state))
          => /\ wire' = wire
             /\ actuator_buckets' = actuator_buckets
             /\ flushTasks' = flushTasks]_vars

\* the threshold rule was met in a cycle while relay1 was already on, and
\* nothing was sent or published
C15_Witness ==
    /\ engine_pc = "rules"
    /\ evaluated # <<>>
    /\ evaluated[Len(evaluated)].rule = "w"
    /\ evaluated[Len(evaluated)].met
    /\ metrics[<<DevG, KeyRelay1>>].control_mode = "auto"
    /\ LatestStateIs(DevG, KeyRelay1, On)
    /\ request = NoRequest
    /\ wire = EmptyFn

\* position of the rule with the given id in the document that was loaded
LoadedPosition(id) == CHOOSE i \in DOMAIN loaded : loaded[i].id = id

\* C16: the rules of a cycle are evaluated, and so executed, in descending
\* priority (a rule without priority counts as 0), rules of equal priority in
\* the order of the document.
C16_PriorityOrder ==
    engine_pc \in {"rules", "sleep"} =>
       \A i, j \in DOMAIN evaluated :
          i < j =>
             LET a == LoadedPosition(evaluated[i].rule)
                 b == LoadedPosition(evaluated[j].rule)
             IN \/ Priority(loaded[a]) > Priority(loaded[b])
                \/ Priority(loaded[a]) = Priority(loaded[b]) /\ a < b

\* a cycle evaluated the two rules of priority 5 in document order, then the
\* rule of priority 1 that precedes them in the document
C16_Witness ==
    /\ engine_pc = "rules"
    /\ Len(evaluated) = 3
    /\ LoadedPosition(evaluated[1].rule) = 2
    /\ LoadedPosition(evaluated[2].rule) = 3
    /\ LoadedPosition(evaluated[3].rule) = 1
    /\ Priority(loaded[2]) = Priority(loaded[3])
    /\ Priority(loaded[1]) < Priority(loaded[2])

\* C17: an exception raised while a rule is evaluated or its actions are
\* executed does not keep the remaining rules of the cycle from being
\* evaluated, in this cycle and in the following ones: the rules evaluated
\* so far in a cycle are all enabled rules before the loop's position.
C17_ExceptionIsolated ==
    engine_pc = "rules" =>
       LET passed == SelectSeq(SubSeq(rules, 1, rule_index - 1),
                               LAMBDA r : r.enabled)
       IN /\ rule_index <= Len(rules) + 1
          /\ Len(evaluated) = Len(passed)
          /\ \A i \in DOMAIN passed : evaluated[i].rule = passed[i].id

\* in the second cycle, after a first cycle in which rules raised, two rules
\* raised again and the rule after them was evaluated
C17_Witness ==
    /\ necycles = 1
    /\ engine_pc = "rules"
    /\ Len(evaluated) = 3
    /\ evaluated[1].raised
    /\ evaluated[2].raised
    /\ ~evaluated[3].raised

\* C18: when the rule document was modified (its mtime advanced) after the
\* engine last read it, the next cycle reloads it: no cycle goes on to the
\* rules without a reload while a modification is unread.
C18_ModifiedDocumentReloaded ==
    [][(engine_pc = "sleep" /\ engine_pc' = "rules") => ~unread]_vars

\* C21: publish never blocks: a publish step appends the event to every
\* subscriber queue that is not full, leaves every full queue as it was,
\* keeps the set of subscribers, and the publisher carries on (it is enabled
\* whatever the queues hold).
C21_PublishNeverBlocks ==
    [][/\ npublished < MaxPublishes => ENABLED PublishEvent
       /\ npublished' = npublished + 1 =>
             /\ DOMAIN subscribers' = DOMAIN subscribers
             /\ \A q \in DOMAIN subscribers :
                   IF Len(subscribers[q]) < QueueMaxSize
                   THEN subscribers'[q] = Append(subscribers[q], npublished + 1)
                   ELSE subscribers'[q] = subscribers[q]]_vars

\* an event was dropped for a full queue and taken by another subscriber
C21_Witness ==
    /\ last_dropped /= {}
    /\ last_received /= {}
    /\ \A q \in last_dropped \cap DOMAIN subscribers :
          Len(subscribers[q]) = QueueMaxSize

\* message m is malformed: its payload does not decode (and is not the plain
\* text of esp32/status), or no device key can be derived from payload or
\* topic, or it is a telemetry message without a usable value
Malformed(m) ==
    \/ ~m.data.is_json /\ m.topic # status_topic
    \/ /\ ~Truthy(DerivedId(m.data))
       /\ ~Truthy(_device_id_from_topic(m.topic))
    \/ /\ m.handler \in {"sensor_data", "relay_status"}
       /\ MsgValues(m) = <<>>

\* C22: every malformed message (undecodable payload, no derivable device
\* identity, empty metric set) is dropped, that is, it changes neither the
\* devices, the metrics, the readings nor the value cache, and an error event
\* is emitted for it.
C22_MalformedInputReported ==
    [][(nmsg' + ndisc' # nmsg + ndisc /\ Malformed(last_message'))
       => /\ devices' = devices
          /\ metrics' = metrics
          /\ readings' = readings
          /\ values_cache' = values_cache
          /\ \E j \in DOMAIN emitted' : emitted'[j].type = "error"]_vars

\* C23: the latest readings hold, for every (device, metric) that has at
\* least one reading, exactly one snapshot; it carries the metric's key,
\* display name and unit and the greatest timestamp among the metric's
\* readings.
C23_OneLatestSnapshotPerMetric ==
    \A p \in DOMAIN metrics :
       ReadingsOf(readings, metrics[p].id) # {} =>
          LET mine == {s \in get_latest_readings(metrics, readings) :
                          s.device_key = p[1] /\ s.metric_key = p[2]}
          IN /\ Cardinality(mine) = 1
             /\ \A s \in mine :
                   /\ s.display_name = metrics[p].display_name
                   /\ s.unit = metrics[p].unit
                   /\ \A r \in ReadingsOf(readings, metrics[p].id) :
                         r.timestamp <= s.timestamp

\* the stored rows of device d
DeviceRows(table, d) == {r \in table : r.device_key = d}

\* C24: upsert_device is an idempotent upsert: in every state, for every
\* device key and supplied times t and u, one call leaves exactly one device
\* with that key, active and with last_seen = t, a second call leaves exactly
\* one, active and with last_seen = u, and no other device is touched; and a
\* message step that refreshed device d leaves exactly one row for d, active
\* and last seen at the time of the message.
C24_UpsertIdempotent ==
    [][/\ \A d \in {DevG, DevH}, t, u \in 0..MaxClock :
             LET once == upsert_device(IngestState, d, t)
                 twice == upsert_device(once, d, u)
             IN /\ DeviceRows(once.devices, d) = {Device(d, t, TRUE)}
                /\ DeviceRows(twice.devices, d) = {Device(d, u, TRUE)}
                /\ twice.devices \ DeviceRows(twice.devices, d)
                      = devices \ DeviceRows(devices, d)
       /\ \A d \in {DevG, DevH} :
             (/\ nmsg' + ndisc' # nmsg + ndisc
              /\ \E i \in DOMAIN emitted' :
                    emitted'[i].type = "device" /\ emitted'[i].device_id = d)
             => DeviceRows(devices', d) = {Device(d, now, TRUE)}]_vars

\* a device that the inactivity job had marked inactive is active again,
\* last seen at the time of its latest message
C24_Witness ==
    \E r \in devices :
       /\ r.device_key \in was_inactive
       /\ r.is_active
       /\ r.last_seen = now
       /\ last_message # NoMessage

\* C25: when a telemetry message of an identified device (discovered, for
\* sensor data) carries a value for a metric key that is neither in the
\* metric cache nor in the store, the step registers a metric for the key,
\* of type sensor from the sensor-data handler and of type actuator from the
\* relay-status handler, and persists the value as a reading of that metric
\* at the message's timestamp (unless persisting that reading fails).
C25_UnknownMetricRegistered ==
    [][(/\ nmsg' = nmsg + 1
        /\ last_message'.handler \in {"sensor_data", "relay_status"}
        /\ Truthy(MsgDevice(last_message'))
        /\ last_message'.handler = "sensor_data"
              => MsgDevice(last_message') \in discovery_completed)
       => LET m == last_message'
              d == MsgDevice(m)
              vals == MsgValues(m)
          IN \A i \in DOMAIN vals :
                LET pair == <<d, vals[i].name>>
                IN (/\ pair \notin DOMAIN metric_cache
                    /\ pair \notin DOMAIN metrics
                    /\ i \notin m.failed)
                   => /\ pair \in DOMAIN metrics'
                      /\ metrics'[pair].metric_type =
                            IF m.handler = "sensor_data" THEN "sensor"
                            ELSE "actuator"
                      /\ \E r \in readings' :
                            /\ r.metric_id = metrics'[pair].id
                            /\ r.value = vals[i].value
                            /\ r.timestamp = now]_vars

\* C26: a discovery message, or a sensor-data message with a non-empty value
\* set, whose device key can be identified leaves a device with that key in
\* the store, whether or not a discovery of the device was processed before;
\* and the sensor-data message leaves a reading, at the message's timestamp,
\* for each of its values (unless persisting that reading fails).
C26_FirstMessageCreatesDevice ==
    [][(/\ nmsg' + ndisc' # nmsg + ndisc
        /\ last_message'.handler \in {"discovery", "sensor_data"}
        /\ Truthy(MsgDevice(last_message'))
        /\ last_message'.handler = "sensor_data" => MsgValues(last_message') # <<>>)
       => LET m == last_message'
              d == MsgDevice(m)
              vals == MsgValues(m)
          IN /\ d \in DeviceKeys(devices')
             /\ \A i \in DOMAIN vals :
                   i \notin m.failed =>
                      /\ <<d, vals[i].name>> \in DOMAIN metrics'
                      /\ \E r \in readings' :
                            /\ r.metric_id = metrics'[<<d, vals[i].name>>].id
                            /\ r.value = vals[i].value
                            /\ r.timestamp = now]_vars

\* whether condition c of the rule holds in the state
Holds(rule, c) ==
    evaluate_condition([c EXCEPT !._rule_id = rule.id], sensor_data)

\* the conditions of a list that a short-circuit evaluation looks at: all up
\* to and including the first whose value is stop
Looked(rule, list, stop, tag) ==
    LET hits == {i \in DOMAIN list : Holds(rule, list[i]) = stop}
        last == IF hits = {} THEN Len(list)
                ELSE CHOOSE i \in hits : \A j \in hits : i <= j
    IN [i \in 1..last |-> <<tag, i>>]

\* C27: evaluate_rule is true exactly when every all_of condition holds and,
\* when any_of is not empty, one of its conditions holds; all_of is evaluated
\* up to its first false condition, any_of up to its first true condition and
\* only when all_of held; a rule that is not enabled is not evaluated
C27_EvaluateRuleShortCircuits ==
    (engine_pc = "rules" /\ Len(rules) = 1 /\ rule_index = 2) =>
        LET rule == rules[1]
            all_of == rule.conditions.all_of
            any_of == rule.conditions.any_of
            all_met == \A i \in DOMAIN all_of : Holds(rule, all_of[i])
            any_met == \E i \in DOMAIN any_of : Holds(rule, any_of[i])
        IN IF ~rule.enabled THEN evaluated = <<>>
           ELSE /\ Len(evaluated) = 1
                /\ ~evaluated[1].raised
                /\ evaluated[1].met <=> (all_met /\ (any_of # <<>> => any_met))
                /\ evaluated[1].trace =
                      Looked(rule, all_of, FALSE, "all_of")
                      \o (IF all_met THEN Looked(rule, any_of, TRUE, "any_of")
                          ELSE <<>>)

\* an any_of of two conditions whose first holds was evaluated after an all_of
\* that held: the second any_of condition was not looked at
C27_Witness ==
    /\ engine_pc = "rules" /\ Len(rules) = 1 /\ rule_index = 2
    /\ Len(rules[1].conditions.all_of) = 1
    /\ Len(rules[1].conditions.any_of) = 2
    /\ Len(evaluated) = 1
    /\ evaluated[1].met
    /\ evaluated[1].trace = << <<"all_of", 1>>, <<"any_of", 1>> >>

\* a condition the engine cannot evaluate: a type or an operator it does not
\* know, a device or metric the snapshot does not hold, a cron condition
\* whose expression is missing or is not a cron expression
Unevaluable(c) ==
    \/ c.type \notin {"time_range", "days_of_week", "sensor_threshold", "cron"}
    \/ /\ c.type = "sensor_threshold"
       /\ \/ <<c.device_key, c.metric_key>> \notin DOMAIN sensor_data
          \/ c.operator \notin {"greater_than", "less_than", "equals",
                                "greater_than_or_equal", "less_than_or_equal"}
    \/ c.type = "cron" /\ (~Truthy(c.expression) \/ c.expression # CronExpression)

\* C28: a condition that cannot be evaluated (absent device or metric,
\* unknown type, unknown operator, cron expression missing or invalid) is
\* false and the evaluation of its rule does not raise; an action of unknown
\* type is skipped and the set_actuator action after it still sends its
\* request
C28_UnevaluableIsFalse ==
    [][(engine_pc = "rules" /\ Len(rules) = 1 /\ rule_index = 1
        /\ rule_index' = 2 /\ rules[1].enabled) =>
          LET rule == rules[1]
              all_of == rule.conditions.all_of
              any_of == rule.conditions.any_of
          IN /\ \A i \in DOMAIN all_of : Unevaluable(all_of[i]) => ~Holds(rule, all_of[i])
             /\ \A i \in DOMAIN any_of : Unevaluable(any_of[i]) => ~Holds(rule, any_of[i])
             /\ Len(evaluated') = 1
             /\ ~evaluated'[1].raised
             /\ (\E i \in DOMAIN all_of : Unevaluable(all_of[i])) => ~evaluated'[1].met
             /\ (\A i \in DOMAIN any_of : Unevaluable(any_of[i])) /\ any_of # <<>>
                   => ~evaluated'[1].met
             /\ ( /\ evaluated'[1].met
                  /\ Len(rule.actions) = 2
                  /\ rule.actions[1].type \notin {"set_actuator"}
                  /\ rule.actions[2].type = "set_actuator" )
                   => request' = control_actuator(rule.actions[2].device_key,
                                                  rule.actions[2].actuator_key,
                                                  rule.actions[2].state, SrcAi)
      ]_vars

\* a rule whose any_of starts with a condition of unknown type and whose
\* first action has an unknown type was evaluated: the condition was false,
\* the next one was looked at and the set_actuator action sent its request
C28_Witness ==
    /\ engine_pc = "rules" /\ Len(rules) = 1 /\ rule_index = 2
    /\ Len(rules[1].actions) = 2
    /\ rules[1].actions[1].type = "notify"
    /\ Unevaluable(rules[1].conditions.any_of[1])
    /\ Len(evaluated) = 1
    /\ evaluated[1].trace = << <<"any_of", 1>>, <<"any_of", 2>> >>
    /\ request # NoRequest
    /\ request.commands[1].actuator_key = KeyRelay1

\* the minute of the day a start or end time names; a missing start is
\* 00:00, a missing end 23:59
MinuteOf(t, default) ==
    ParseTime(IF t = NoneStr THEN default ELSE t).seconds \div 60

\* C29: a time_range condition is met exactly when the minute of the clock
\* lies between the start and the end minute, endpoints included, or, when
\* start is after end, is at or after start or at or before end
C29_TimeRangeInclusive ==
    ( /\ engine_pc = "rules" /\ Len(rules) = 1 /\ rule_index = 2
      /\ Len(evaluated) = 1
      /\ Len(rules[1].conditions.all_of) = 1
      /\ rules[1].conditions.all_of[1].type = "time_range" ) =>
        LET c == rules[1].conditions.all_of[1]
            start == MinuteOf(c.start_time, <<"0","0",":","0","0">>)
            end == MinuteOf(c.end_time, <<"2","3",":","5","9">>)
            current == (wallclock % SecondsPerDay) \div 60
        IN evaluated[1].met <=>
              IF start <= end THEN start <= current /\ current <= end
              ELSE current >= start \/ current <= end

\* C30: the network callback can run for every message that arrives (put
\* does not wait for room in the queue), and a call leaves the queue as it was or with one (topic,
\* payload) pair appended; the registry, the metric cache, the value cache,
\* the discovery set, the devices and the rate-limit buckets are unchanged
C30_CallbackOnlyEnqueues ==
    [][ /\ narrived < MaxArrivals => \A msg \in Arrivals : ENABLED OnMessageOf(msg)
        /\ narrived' # narrived =>
              /\ \/ message_queue' = message_queue
                 \/ \E msg \in Arrivals :
                       /\ msg.is_utf8
                       /\ message_queue' =
                             Append(message_queue, Delivery(msg.topic, msg.data))
              /\ UNCHANGED <<metrics, metric_cache, values_cache,
                             discovery_completed, devices, actuator_buckets,
                             readings, popped>>
      ]_vars

\* the callback put a second pair on the queue while the processor had
\* filled the registry and the value cache from earlier messages
C30_Witness ==
    /\ Len(message_queue) = 1
    /\ narrived = 3
    /\ Len(popped) = 2
    /\ nmsg + ndisc = 2
    /\ metrics # EmptyFn
    /\ values_cache # EmptyFn

\* C31: however often start_message_processor is called, at most one
\* processor task exists; a pair is taken off the queue only when no pair is
\* being processed, it is the oldest pair of the queue, and the pair whose
\* processing finishes is the one taken
C31_OneSerialProcessor ==
    [][ /\ ntasks' <= 1
        /\ popped' # popped =>
              /\ InFlight = 0
              /\ popped' = Append(popped, Head(message_queue))
              /\ message_queue' = Tail(message_queue)
        /\ nmsg' + ndisc' # nmsg + ndisc =>
              /\ InFlight = 1
              /\ nmsg' + ndisc' = Len(popped)
              /\ last_message'.topic = popped[Len(popped)].topic
              /\ last_message'.data = popped[Len(popped)].data
      ]_vars

\* start_message_processor was called twice, two pairs wait in the queue
\* and the one task took the pair before them
C31_Witness ==
    /\ nstarts = 2
    /\ ntasks = 1
    /\ Len(message_queue) = 2
    /\ InFlight = 1

\* a message no handler is called for: a payload that is not JSON on a topic
\* other than esp32/status, or a topic that matches no route
Unrouted(d) == _process_message(d.topic, d.data).handler = "none"

\* a telemetry message whose handler raises: it names a metric that is not
\* registered, for which _ensure_metric_id raises the ValueError of
\* sync_device_metrics
RaisingTelemetry(d) ==
    LET routed == _process_message(d.topic, d.data)
        device_id == DeviceIdOf(d.topic, routed.data)
        named == IF routed.handler = "sensor_data" THEN routed.data.values
                 ELSE SelectSeq(routed.data.values,
                                LAMBDA v : StartsWith(v.name, RelayPrefix))
    IN /\ routed.handler \in {"sensor_data", "relay_status"}
       /\ routed.data.is_dict
       /\ Truthy(device_id)
       /\ routed.handler = "sensor_data" => device_id \in discovery_completed
       /\ \E i \in DOMAIN named :
             /\ <<device_id, named[i].name>> \notin DOMAIN metrics
             /\ <<device_id, named[i].name>> \notin DOMAIN metric_cache

\* C32: processing a message that is not routed or whose handler raises
\* leaves the registry, the value cache and the readings as they were, and
\* the processor is then free to take the next pair of the queue
C32_NoMessageStopsPipeline ==
    [][ nmsg' + ndisc' # nmsg + ndisc =>
          LET d == popped[nmsg + ndisc + 1]
          IN (Unrouted(d) \/ RaisingTelemetry(d)) =>
                /\ UNCHANGED <<metrics, values_cache, readings>>
                /\ InFlight' = 0
                /\ ntasks' = 1
      ]_vars

\* C33: processing a heartbeat of a device leaves that device with one row,
\* active and last seen now, and every other device row as it was; the
\* metrics, the metric cache, the readings, the value cache and the set of
\* devices that completed discovery are unchanged
C33_HeartbeatOnlyRefreshes ==
    [][(nmsg' = nmsg + 1 /\ last_message'.handler = "heartbeat") =>
          LET d == _process_message(last_message'.topic,
                                    last_message'.data).data.device_id
          IN /\ DeviceRows(devices', d) = {Device(d, now, TRUE)}
             /\ devices' \ DeviceRows(devices', d) = devices \ DeviceRows(devices, d)
             /\ UNCHANGED <<metrics, metric_cache, readings, values_cache,
                            discovery_completed>>
      ]_vars

\* a heartbeat that carried sensor values was processed for a device that
\* had been marked inactive: the device is active again and nothing was
\* stored
C33_Witness ==
    /\ last_message.handler = "heartbeat"
    /\ last_message.data.values # <<>>
    /\ DevG \in was_inactive
    /\ Device(DevG, now, TRUE) \in devices
    /\ readings = {}

\* C34: a load never reads a partially written rule document, and the rule
\* set of the engine, once loaded, is always the complete rule set of one
\* version of the document
C34_LoadSeesCompleteDocument ==
    /\ loaded # Truncated
    /\ last_load_time # None =>
          \E i \in DOMAIN Documents : rules = SortRules(<<>>, Documents[i])

\* the last load of the engine failed: what it read was not a document
LoadFailed == loaded = Truncated /\ engine_pc \in {"sleep", "rules"}

\* C39: a load that fails empties the rule set and leaves the recorded load
\* time as it was; while the last load has failed no rule is evaluated, and
\* the next cycle loads again
C39_FailedLoadIsRetried ==
    [][ /\ ( /\ engine_pc \in {"stamp_initial", "stamp"}
             /\ engine_pc' \notin {"stamp_initial", "stamp"}
             /\ loaded = Truncated )
           => /\ rules' = <<>>
              /\ last_load_time' = last_load_time
        /\ LoadFailed => rules = <<>> /\ evaluated = <<>>
        /\ (LoadFailed /\ engine_pc = "sleep" /\ engine_pc' # "sleep")
           => engine_pc' = "load"
      ]_vars

\* the rule set had been loaded, a reload read the emptied document, the
\* cycle ran without rules and the next cycle is loading again
C39_Witness ==
    /\ loaded = Truncated
    /\ engine_pc = "load"
    /\ necycles = 1
    /\ last_load_time # None
    /\ rules = <<>>

\* C35: when the conditions of a rule hold, its actions are gone through in
\* list order and to the end, whatever the outcome of an action: a run of the
\* agent that fails or has no agent, a set_actuator that is skipped or
\* raises; a set_actuator that can switch its actuator sends its request
\* wherever it stands in the list
C35_FailedActionDoesNotStopActions ==
    [][(engine_pc = "rules" /\ Len(rules) = 1 /\ rule_index = 1
        /\ rule_index' = 2 /\ rules[1].enabled /\ Len(evaluated') = 1
        /\ evaluated'[1].met) =>
          LET rule == rules[1]
              log == evaluated'[1].actions
              modes == get_actuator_modes(metrics)
          IN /\ ~evaluated'[1].raised
             /\ Len(log) = Len(rule.actions)
             /\ \A i \in DOMAIN log : log[i].index = i
             /\ \A i \in DOMAIN log :
                   rule.actions[i].type = "run_ai_agent" =>
                      log[i].outcome = (CASE agent = "None" -> "no_agent"
                                          [] agent = "raises" -> "error"
                                          [] OTHER -> "completed")
             /\ \A i \in DOMAIN log :
                   ( /\ rule.actions[i].type = "set_actuator"
                     /\ rule.actions[i].device_key # Unhashable
                     /\ \A latest \in latest_readings(metrics, readings) :
                           _execute_set_actuator(rule.actions[i], modes, latest)
                              # NoRequest )
                   => /\ log[i].outcome = "sent"
                      /\ request' = control_actuator(rule.actions[i].device_key,
                                                     rule.actions[i].actuator_key,
                                                     rule.actions[i].state, SrcAi)
      ]_vars

\* the agent's run raised, the next set_actuator raised, and the action
\* after them switched relay1 on
C35_Witness ==
    /\ engine_pc = "rules" /\ Len(rules) = 1 /\ rule_index = 2
    /\ agent = "raises"
    /\ rules[1].actions = <<RunAgent, SetUnhashable, SetRelay1On>>
    /\ Len(evaluated) = 1
    /\ evaluated[1].actions = <<[index |-> 1, outcome |-> "error"],
                                [index |-> 2, outcome |-> "error"],
                                [index |-> 3, outcome |-> "sent"]>>
    /\ request # NoRequest
    /\ request.commands[1].actuator_key = KeyRelay1

\* the commands of the publishes that a step adds to the wire
NewlyPublished ==
    UNION { UNION { Range(wire'[topic][i].payload.commands) :
                      i \in (IF topic \in DOMAIN wire THEN Len(wire[topic]) ELSE 0) + 1
                            .. Len(wire'[topic]) } :
            topic \in DOMAIN wire' }

\* C36: no command of the agent or the rule engine reaches the transport
\* while its actuator is in manual mode, whatever the interleaving of mode
\* changes, requests and deferred flushes
C36_NoAutomatedPublishInManual ==
    [][\A command \in NewlyPublished :
          metrics'[<<command.device_id, command.actuator>>].control_mode = "auto"
      ]_vars

\* the scheduled times of the cron expression within the engine's clock range
CronTicks == {t \in 0..MaxCronTime : t % CronPeriod = 0}

\* the loop was running around the scheduled time: a cycle started at or
\* before it and a cycle started CronGrace seconds or more after it
LoopCovers(tick) ==
    /\ \E i \in DOMAIN cycle_starts : cycle_starts[i] <= tick
    /\ \E i \in DOMAIN cycle_starts : cycle_starts[i] >= tick + CronGrace

\* consecutive cycles started at most 60 seconds apart
CyclesAtMostAMinuteApart ==
    \A i \in DOMAIN cycle_starts :
       i > 1 => cycle_starts[i] - cycle_starts[i - 1] <= 60

\* C37: when the cycles start at most 60 seconds apart, every scheduled time
\* of the cron expression leads to exactly one execution of the actions of
\* rule a (enabled, a cron condition only, a set_actuator action)
C37_NoCronTickMissed ==
    \A tick \in CronTicks :
       (CyclesAtMostAMinuteApart /\ LoopCovers(tick)) =>
          Cardinality({e \in ran : e.rule = "a" /\ e.tick = tick}) = 1

\* the publishes of a topic on a wire
PublishesOn(w, topic) == IF topic \in DOMAIN w THEN w[topic] ELSE <<>>

\* a flush of the topic is attempted in this step: by a deferred flush task
\* that finds commands waiting, or by a request that comes when the topic
\* has never published or MinInterval after its last publish
FlushAttempted(topic) ==
    \/ /\ nreq' = nreq /\ flushTasks' # flushTasks
       /\ actuator_buckets[topic].accumulator # <<>>
    \/ /\ nreq' = nreq + 1
       /\ \/ topic \notin DOMAIN actuator_buckets
          \/ actuator_buckets[topic].last_sent = None
          \/ now - actuator_buckets[topic].last_sent >= MinInterval

\* C38: a flush whose transport publish raises leaves the accumulator empty
\* and last_sent advanced and publishes nothing, and no later flush
\* publishes the discarded commands: a deferred flush publishes exactly what
\* its accumulator holds, and nothing when it holds nothing
C38_FailedFlushDiscards ==
    [][LET topic == RateTopic
       IN /\ (transport = "raises" /\ FlushAttempted(topic)) =>
                /\ actuator_buckets'[topic].accumulator = <<>>
                /\ actuator_buckets'[topic].last_sent = now
                /\ PublishesOn(wire', topic) = PublishesOn(wire, topic)
                /\ window'[topic] = <<>>
          /\ (nreq' = nreq /\ flushTasks' # flushTasks) =>
                IF transport = "ok" /\ actuator_buckets[topic].accumulator # <<>>
                THEN /\ Len(wire'[topic]) = Len(wire[topic]) + 1
                     /\ wire'[topic][Len(wire'[topic])].payload.commands
                           = DictValues(actuator_buckets[topic].accumulator)
                ELSE PublishesOn(wire', topic) = PublishesOn(wire, topic)
      ]_vars

\* the first request was published, the second waited in the accumulator,
\* the deferred flush failed, and nothing is left to send
C38_Witness ==
    /\ RateTopic \in DOMAIN actuator_buckets
    /\ nreq = 2
    /\ Len(wire[RateTopic]) = 1
    /\ actuator_buckets[RateTopic].last_sent > wire[RateTopic][1].time
    /\ actuator_buckets[RateTopic].accumulator = <<>>
    /\ flushTasks = EmptyFn
    /\ transport = "ok"

\* the declared source of the request is none of user, ai, automation
UnknownSource == Lower(request.source) \notin {SrcUser, SrcAi, SrcAutomation}

\* C40: a request whose declared source is not user, ai or automation is
\* arbitrated as source user: its commands for registered actuators in
\* manual mode are processed, and those for actuators in auto mode are
\* blocked with the AUTO-mode reason unless the request is forced
C40_UnknownSourceIsUser ==
    (Answered /\ UnknownSource) =>
       /\ response.source = SrcUser
       /\ \A i \in DOMAIN response.blocked : response.blocked[i].source = SrcUser
       /\ \A pair \in RequestPairs :
             RegisteredActuator(pair) =>
                IF RegistryMode(pair) = "manual" \/ request.force
                THEN /\ CountOf(response.details, pair) = 1
                     /\ CountOf(response.blocked, pair) = 0
                ELSE /\ CountOf(response.details, pair) = 0
                     /\ \E j \in DOMAIN response.blocked :
                           /\ EntryPair(response.blocked[j]) = pair
                           /\ response.blocked[j].mode = "auto"
                           /\ response.blocked[j].reason = ReasonAuto

\* a request with source "cron" and no force was answered: one command, for
\* an actuator in manual mode, was processed and the other, for an actuator
\* in auto mode, was blocked
C40_Witness ==
    /\ Answered
    /\ request.source = <<"c","r","o","n">>
    /\ ~request.force
    /\ \E i \in DOMAIN response.details : response.details[i].mode = "manual"
    /\ \E j \in DOMAIN response.blocked : response.blocked[j].mode = "auto"

=============================================================================
